---- MODULE Spec2Model ----
(***************************************************************************)
(* Neoshell: the nsi-sandbox launcher (src/sandbox/main.cpp), the run      *)
(* drivers (src/cli/commands/run.js with src/cli/index.js, and lib/run.js) *)
(* and the image readers, as state machines.                               *)
(*                                                                         *)
(* Strings are TLA+ strings; TLC evaluates Len, \o, SubSeq, Head and Tail  *)
(* on them, so a character is a string of length one.                      *)
(***************************************************************************)
EXTENDS Integers, Sequences, FiniteSets, TLC

(***************************************************************************)
(* String helpers (std::string / JS string operations the code uses).      *)
(***************************************************************************)
CharAt(s, i) == SubSeq(s, i, i)

StartsWith(s, p) == Len(s) >= Len(p) /\ SubSeq(s, 1, Len(p)) = p

\* std::string::find(c): the 1-based position of the first c, 0 for npos.
RECURSIVE FindFrom(_, _, _)
FindFrom(s, c, i) ==
    IF i > Len(s) THEN 0
    ELSE IF CharAt(s, i) = c THEN i ELSE FindFrom(s, c, i + 1)

Find(s, c) == FindFrom(s, c, 1)

\* std::string::substr(pos, n) with a 0-based pos.
Substr(s, pos, n) ==
    SubSeq(s, pos + 1, IF pos + n > Len(s) THEN Len(s) ELSE pos + n)

\* The characters of the model's strings in ASCII order (std::map<std::string>
\* iterates its keys in this order).
AsciiOrder ==
    << "!", "-", "/", "0", "1", "2", "3", "4", "5", "6", "7", "8", "9", ":", "=",
       "A", "B", "C", "D", "E", "F", "G", "H", "I", "J", "K", "L", "M", "N", "O",
       "P", "Q", "R", "S", "T", "U", "V", "W", "X", "Y", "Z", "_",
       "a", "b", "c", "d", "e", "f", "g", "h", "i", "j", "k", "l", "m", "n", "o",
       "p", "q", "r", "s", "t", "u", "v", "w", "x", "y", "z" >>

CharCode(c) == CHOOSE i \in 1..Len(AsciiOrder) : AsciiOrder[i] = c

\* std::less<std::string>: lexicographic comparison.
RECURSIVE StrLess(_, _)
StrLess(a, b) ==
    IF Len(b) = 0 THEN FALSE
    ELSE IF Len(a) = 0 THEN TRUE
    ELSE IF Head(a) = Head(b) THEN StrLess(Tail(a), Tail(b))
    ELSE CharCode(Head(a)) < CharCode(Head(b))

\* The entries of a std::map<string,string> (a function on its key set) in
\* iteration order, as "key=value" strings built by f.
RECURSIVE MapKeysInOrder(_)
MapKeysInOrder(keys) ==
    IF keys = {} THEN << >>
    ELSE LET k == CHOOSE x \in keys : \A y \in keys \ {x} : StrLess(x, y)
         IN  << k >> \o MapKeysInOrder(keys \ {k})

MapPut(m, k, v) == [x \in DOMAIN m \cup {k} |-> IF x = k THEN v ELSE m[x]]

EmptyMap == [x \in {} |-> ""]

(***************************************************************************)
(* nsi-sandbox: parse_args (getopt_long with GNU argument permutation).    *)
(***************************************************************************)
\* long_options[] and optstring of parse_args.
LongOptions ==
    << [name |-> "rootfs",    val |-> "r"],
       [name |-> "workdir",   val |-> "w"],
       [name |-> "env",       val |-> "e"],
       [name |-> "mem",       val |-> "m"],
       [name |-> "cgroup-id", val |-> "g"] >>

Optstring == "r:w:e:m:g:"

ShortKnown(c) == c # ":" /\ Find(Optstring, c) > 0

ShortTakesArg(c) ==
    LET i == Find(Optstring, c) IN i > 0 /\ CharAt(Optstring, i + 1) = ":"

\* The long options a name selects: the exact match, else every option the
\* name abbreviates (more than one is ambiguous).
LongMatch(name) ==
    LET exact == {i \in 1..Len(LongOptions) : LongOptions[i].name = name}
        abbr  == {i \in 1..Len(LongOptions) : StartsWith(LongOptions[i].name, name)}
    IN  IF exact # {} THEN exact ELSE abbr

\* One call of getopt_long with argv[i] the next element to scan (argv is
\* 1-based here, argv[1] the program name).  kind is "opt" (with val and
\* optarg), "?" (unknown option, ambiguous name or missing argument), "end"
\* (the "--" terminator) or "nonopt" (an operand, which GNU getopt skips and
\* moves behind the options because optstring does not start with '+').
GetoptStep(argv, i) ==
    LET t    == argv[i]
        more == i + 1 <= Len(argv)
        Opt(v, a, n) == [kind |-> "opt", val |-> v, optarg |-> a, next |-> n]
        Bad  == [kind |-> "?", val |-> "?", optarg |-> "", next |-> i + 1]
    IN  IF t = "--"
          THEN [kind |-> "end", val |-> "", optarg |-> "", next |-> i + 1]
        ELSE IF StartsWith(t, "--")
          THEN LET eq    == Find(t, "=")
                   name  == IF eq = 0 THEN SubSeq(t, 3, Len(t)) ELSE SubSeq(t, 3, eq - 1)
                   cands == LongMatch(name)
               IN  IF Cardinality(cands) # 1 THEN Bad
                   ELSE LET o == LongOptions[CHOOSE c \in cands : TRUE]
                        IN  IF eq > 0 THEN Opt(o.val, SubSeq(t, eq + 1, Len(t)), i + 1)
                            ELSE IF more THEN Opt(o.val, argv[i + 1], i + 2)
                            ELSE Bad
        ELSE IF StartsWith(t, "-") /\ Len(t) > 1
          THEN LET c == CharAt(t, 2)
               IN  IF ~ShortKnown(c) THEN Bad
                   ELSE IF ~ShortTakesArg(c) THEN Opt(c, "", i + 1)
                   ELSE IF Len(t) > 2 THEN Opt(c, SubSeq(t, 3, Len(t)), i + 1)
                   ELSE IF more THEN Opt(c, argv[i + 1], i + 2)
                   ELSE Bad
        ELSE [kind |-> "nonopt", val |-> "", optarg |-> "", next |-> i + 1]

\* struct Args as default-constructed, with the parse's bookkeeping: the
\* operands getopt skipped, the invalid --env arguments warned about, and
\* status ("ok", or "usage"/"die" for the two ways parse_args exits 1).
ArgsInit ==
    [rootfs |-> "", workdir |-> "", cgroup_id |-> "", mem_limit |-> "",
     cmd |-> << >>, env_vars |-> EmptyMap,
     nonopts |-> << >>, badEnv |-> << >>, status |-> "ok"]

\* The body of the switch in parse_args for one returned option.
ApplyOption(a, val, optarg) ==
    CASE val = "r" -> [a EXCEPT !.rootfs = optarg]
      [] val = "w" -> [a EXCEPT !.workdir = optarg]
      [] val = "m" -> [a EXCEPT !.mem_limit = optarg]
      [] val = "g" -> [a EXCEPT !.cgroup_id = optarg]
      [] val = "e" ->
            LET eq == Find(optarg, "=")
            IN  IF eq > 1
                  THEN [a EXCEPT !.env_vars =
                            MapPut(@, SubSeq(optarg, 1, eq - 1),
                                      SubSeq(optarg, eq + 1, Len(optarg)))]
                  ELSE [a EXCEPT !.badEnv = Append(@, optarg)]
      [] OTHER -> [a EXCEPT !.status = "usage"]

\* The while loop of parse_args, then the collection of the command.
RECURSIVE ParseLoop(_, _, _)
ParseLoop(argv, i, a) ==
    IF i > Len(argv) THEN [a EXCEPT !.cmd = a.nonopts]
    ELSE LET g == GetoptStep(argv, i)
         IN  CASE g.kind = "end" ->
                    [a EXCEPT !.cmd = a.nonopts \o SubSeq(argv, g.next, Len(argv))]
               [] g.kind = "nonopt" ->
                    ParseLoop(argv, g.next, [a EXCEPT !.nonopts = Append(@, argv[i])])
               [] g.kind = "?" -> [a EXCEPT !.status = "usage"]
               [] OTHER ->
                    ParseLoop(argv, g.next, ApplyOption(a, g.val, g.optarg))

\* parse_args: dirs is the set of paths stat() reports as directories.
ParseArgs(argv, dirs) ==
    LET a == ParseLoop(argv, 2, ArgsInit)
    IN  IF a.status # "ok" THEN a
        ELSE IF a.cmd = << >> THEN [a EXCEPT !.status = "die"]
        ELSE IF a.rootfs = "" THEN [a EXCEPT !.status = "die"]
        ELSE IF a.cgroup_id = "" THEN [a EXCEPT !.status = "die"]
        ELSE LET b == IF a.workdir = "" THEN [a EXCEPT !.workdir = "/"] ELSE a
             IN  IF b.rootfs \notin dirs THEN [b EXCEPT !.status = "die"] ELSE b

(***************************************************************************)
(* The run command's assembly of the launcher's arguments.                 *)
(***************************************************************************)
\* A JS template literal's rendering of a value that may be undefined
\* (<< >>) or a string (<< s >>).
JsTemplate(v) == IF v = << >> THEN "undefined" ELSE v[1]

\* sandboxArgs: header.env is Object.entries(header.env), a sequence of
\* <<key, value>>; argvEnv is argv.env, the caller's -e strings.
SandboxArgs(tmp, header, argvEnv, mem, id) ==
    << "--rootfs=" \o tmp, "--workdir=" \o JsTemplate(header.workDir) >>
    \o [i \in 1..Len(header.env) |->
            "--env=" \o header.env[i][1] \o "=" \o header.env[i][2]]
    \o [i \in 1..Len(argvEnv) |-> "--env=" \o argvEnv[i]]
    \o << "--mem=" \o mem, "--cgroup-id=" \o id >>
    \o header.cmd


(***************************************************************************)
(* Bounds and input sets of the launcher specification.                    *)
(***************************************************************************)
MaxCmdArgs == 2      \* arguments after the program in header.cmd
MaxImageEnv == 1     \* entries of header.env
MaxOverrides == 1    \* caller -e strings (argv.env)
MaxFaults == 2       \* tolerated (warning-only) system call failures in one run

SeqsUpTo(S, n) == UNION {[1..k -> S] : k \in 0..n}

\* Tokens an image command may carry after its program.
ArgTokens == {"-c", "-e", "A=2"}
CmdChoices == {<< "/s" >> \o a : a \in SeqsUpTo(ArgTokens, MaxCmdArgs)}

ImageEnvPairs == {<< "A", "1" >>, << "HOSTNAME", "h" >>}
ImageEnvChoices ==
    {e \in SeqsUpTo(ImageEnvPairs, MaxImageEnv) :
        \A i, j \in 1..Len(e) : i # j => e[i][1] # e[j][1]}

OverrideStrings == {"A=3", "B", "PATH=/q"}
OverrideChoices == SeqsUpTo(OverrideStrings, MaxOverrides)

WorkDirChoices == {<< "/app" >>, << >>}
ExitCodes == {0, 7, 255}
\* Signals that terminate a PID-1 process of a PID namespace: SIGKILL sent
\* from the host, and a fault's SIGSEGV (which may dump core).
KillSignals == {9, 11}

TmpDir == "/t"                 \* the directory mkdtemp returned
ContainerId == "ab12cd34"      \* uuidv4().substring(0, 8)
DefaultMem == "256M"           \* the run command's default for --mem
\* argv.mem as yargs delivers it: the caller's --mem (<< >> when none was
\* given), else the option's default.
YargsMem(given) == IF given = << >> THEN DefaultMem ELSE given[1]
HostEnv == [x \in {"HOME", "PATH"} |-> IF x = "HOME" THEN "/root" ELSE "/hostbin"]

(***************************************************************************)
(* State.                                                                  *)
(***************************************************************************)
VARIABLES
    inp,        \* the run command's inputs: header, argv.env, --mem and argv.mem
    argv,       \* nsi-sandbox: argv (argv[1] is the program name)
    environ,    \* nsi-sandbox: the process environment it was started with
    args,       \* nsi-sandbox: struct Args after parse_args
    outerPc,    \* nsi-sandbox: position of the outer process
    innerPc,    \* nsi-sandbox: position of the forked (inner) process
    trace,      \* nsi-sandbox: the system calls attempted, in order
    warnings,   \* nsi-sandbox: the "Warning:" messages logged
    hostname,   \* nsi-sandbox: main's local `hostname`
    innerEnd,   \* how the inner process terminated
    outerExit,  \* exit status of the outer process, -1 while it runs
    exec,       \* what the inner process passed to execve (<< >> before)
    kern        \* kernel state of the inner process: cwd, mounts, memory.max

launcherVars ==
    << inp, argv, environ, args, outerPc, innerPc, trace, warnings, hostname,
       innerEnd, outerExit, exec, kern >>

VARIABLES
    drv,            \* run driver: "cli" (cli/index.js, commands/run.js) or "lib" (bin/nsi, lib/run.js)
    file,           \* the image file's bytes
    hPc,            \* position of the run handler / of runContainer
    header,         \* the parsed header (<< >> before)
    rootfsPath,     \* tempExtractPath / rootfsPath: << >> (null) or << path >>
    rootfsExists,   \* whether the rootfs directory exists on the host
    child,          \* the spawned launcher: "none", "spawn_failed", "running", "closed"
    listeners,      \* the process's SIGINT listeners, in registration order
    rmInFlight,     \* fs.rm calls of cleanup() started and not yet finished
    timerArmed,     \* the run handler's 2 s timer is pending
    exitCode,       \* process.exitCode: << >> (unset or null) or << n >>
    proc,           \* the driver process: [state, status]
    hist,           \* what has happened in this run (for the claims)
    options         \* bin/nsi: the --env strings given and the memo parsed from them

runVars ==
    << drv, file, options, hPc, header, rootfsPath, rootfsExists, child, listeners,
       rmInFlight, timerArmed, exitCode, proc, hist >>

(***************************************************************************)
(* The image builders and the stream reader of lib/image.js.               *)
(***************************************************************************)
VARIABLES
    bld,            \* the build in progress: its step and its local values
    disk,           \* the file at the output path of the build
    rd              \* readNsiImage: the file stream, the promise, the inflater

imgVars == << bld, disk, rd >>

vars == << launcherVars, runVars, imgVars >>

NotEnded == [kind |-> "none", n |-> 0, core |-> FALSE]

\* The kernel state of the process before the launcher has made a call.
KernInit ==
    [cwd |-> "host", root |-> "host", mounts |-> << >>, oldRoot |-> "none",
     utsName |-> "host", cgLeaf |-> "none", memoryMax |-> << >>,
     inCgroup |-> FALSE, uidMap |-> FALSE, gidMap |-> FALSE,
     cgParent |-> "none", bound |-> FALSE, oldRootDir |-> FALSE,
     inWorkdir |-> FALSE, program |-> FALSE]

LauncherInit ==
    /\ inp \in [cmd : CmdChoices, env : ImageEnvChoices, workDir : WorkDirChoices,
                argvEnv : OverrideChoices, memGiven : {<< >>}, mem : {DefaultMem}]
    /\ argv = << "nsi-sandbox" >>
              \o SandboxArgs(TmpDir, inp, inp.argvEnv, inp.mem, ContainerId)
    /\ environ = HostEnv
    /\ args = ArgsInit
    /\ outerPc = "parse"
    /\ innerPc = "none"
    /\ trace = << >>
    /\ warnings = {}
    /\ hostname = ""
    /\ innerEnd = NotEnded
    /\ outerExit = -1
    /\ exec = << >>
    /\ kern = KernInit

HistInit ==
    [rootfsCreated |-> FALSE, extracted |-> FALSE, spawned |-> FALSE,
     hashWarned |-> FALSE, sigint |-> FALSE, sigintWhileChild |-> FALSE,
     termSent |-> FALSE, headerAlloc |-> -1, headerParsed |-> FALSE,
     tooLarge |-> FALSE, hashChecked |-> FALSE, close |-> "none", code |-> 0,
     rmDone |-> 0, rmErrors |-> 0]

\* The options of `nsi run` before its command line is parsed.
OptionsIdle == [envArgs |-> << >>, parsed |-> FALSE, env |-> EmptyMap]

\* The run driver before it is started (the launcher specification).
RunIdle ==
    /\ drv = "cli" /\ file = << >> /\ hPc = "idle" /\ header = << >>
    /\ rootfsPath = << >> /\ rootfsExists = FALSE /\ child = "none"
    /\ listeners = << >> /\ rmInFlight = 0 /\ timerArmed = FALSE
    /\ exitCode = << >> /\ proc = [state |-> "idle", status |-> 0]
    /\ hist = HistInit
    /\ options = OptionsIdle

\* No build: who is "none".
BldIdle ==
    [who |-> "none", pc |-> "none", config |-> << >>, tar |-> << >>, packPos |-> 0,
     hash |-> 0, chunks |-> << >>, headerJson |-> << >>, final |-> << >>,
     part |-> 0, scratch |-> FALSE, err |-> "",
     cmdIx |-> 1, ran |-> << >>, exits |-> << >>, tmpSet |-> FALSE, scratchMade |-> FALSE]

\* readNsiImage before it is called.
RdIdle ==
    [promise |-> "idle", why |-> "", settles |-> 0,
     pos |-> 0, sbuf |-> << >>, flowing |-> FALSE, ended |-> FALSE,
     endEmitted |-> FALSE, destroyed |-> FALSE,
     buffer |-> << >>, hasInfo |-> FALSE, headerJsonLen |-> 0, version |-> 0,
     json |-> << >>, payloadOffset |-> 0,
     piped |-> FALSE, bufferedLen |-> 0, inflIn |-> << >>, inflEnded |-> FALSE,
     dropped |-> << >>,
     ioFailed |-> FALSE,
     infl |-> "open", tarIn |-> << >>, outEnded |-> FALSE, ext |-> "idle", extWhy |-> ""]

NoFile == [exists |-> FALSE, bytes |-> << >>]

\* The builders and the stream reader, idle (the launcher and the run
\* specifications leave them alone).
ImageIdle == bld = BldIdle /\ disk = NoFile /\ rd = RdIdle

Init == LauncherInit /\ RunIdle /\ ImageIdle


(***************************************************************************)
(* nsi-sandbox: main, setup_user_namespace_mappings, setup_cgroups,        *)
(* setup_filesystem.  One action per system call; its outcome is the       *)
(* kernel's choice.                                                        *)
(***************************************************************************)
EXIT_FAILURE == 1
HostnameMax == 63
DefaultPath == "/usr/local/sbin:/usr/local/bin:/usr/sbin:/usr/bin:/sbin:/bin"

Step(name) == trace' = Append(trace, name)
Warn(w) == warnings' = warnings \cup {w}

\* The outcomes the kernel may choose for a call whose failure the launcher
\* tolerates: the failures are drawn while the run's fault budget lasts.  The
\* calls of setup_cgroups draw theirs whatever the budget.
FaultCount == Cardinality({w \in warnings : ~StartsWith(w, "env:")})
Outcomes(good, bad) == IF FaultCount < MaxFaults THEN good \cup bad ELSE good

\* die() in the outer process, and in the inner process.
OuterDie == outerPc' = "exited" /\ outerExit' = EXIT_FAILURE
OuterGoto(l) == outerPc' = l /\ outerExit' = outerExit
\* A faulty variant of InnerDie: the message is printed and exit(0) follows.
InnerDieQuiet ==
    /\ innerPc' = "dead"
    /\ innerEnd' = [kind |-> "exit", n |-> 0, core |-> FALSE]
InnerDie ==
    /\ innerPc' = "dead"
    /\ innerEnd' = [kind |-> "exit", n |-> EXIT_FAILURE, core |-> FALSE]
InnerGoto(l) == innerPc' = l /\ innerEnd' = innerEnd

ParseArgsStep ==
    /\ outerPc = "parse"
    /\ LET a == ParseArgs(argv, {TmpDir})
       IN  /\ args' = a
           /\ warnings' = warnings \cup {"env:" \o a.badEnv[i] : i \in 1..Len(a.badEnv)}
           /\ IF a.status = "ok" THEN OuterGoto("unshare_user") ELSE OuterDie
    /\ UNCHANGED << runVars, imgVars, inp, argv, environ, innerPc, trace, hostname, innerEnd, exec, kern >>

\* Stage 1: unshare(CLONE_NEWUSER).
UnshareUser ==
    /\ outerPc = "unshare_user"
    /\ Step("unshare_user")
    /\ \E ok \in BOOLEAN : IF ok THEN OuterGoto("setgroups") ELSE OuterDie
    /\ UNCHANGED << runVars, imgVars, inp, argv, environ, args, innerPc, warnings, hostname, innerEnd, exec, kern >>

\* setup_user_namespace_mappings: "deny" to /proc/self/setgroups.
WriteSetgroups ==
    /\ outerPc = "setgroups"
    /\ Step("setgroups")
    /\ \E r \in Outcomes({"ok"}, {"open_fails", "write_fails"}) :
          IF r = "ok" THEN UNCHANGED warnings ELSE Warn("setgroups_" \o r)
    /\ OuterGoto("uid_map")
    /\ UNCHANGED << runVars, imgVars, inp, argv, environ, args, innerPc, hostname, innerEnd, exec, kern >>

WriteUidMap ==
    /\ outerPc = "uid_map"
    /\ Step("uid_map")
    /\ \E r \in {"ok", "open_fails", "write_fails"} :
          IF r = "ok" THEN OuterGoto("gid_map") /\ kern' = [kern EXCEPT !.uidMap = TRUE]
          ELSE OuterDie /\ UNCHANGED kern
    /\ UNCHANGED << runVars, imgVars, inp, argv, environ, args, innerPc, warnings, hostname, innerEnd, exec >>

\* A faulty variant of WriteGidMap: a failed write is logged and tolerated.
WriteGidMapTolerant ==
    /\ outerPc = "gid_map"
    /\ Step("gid_map")
    /\ \E r \in {"ok", "open_fails", "write_fails"} :
          IF r = "ok" THEN kern' = [kern EXCEPT !.gidMap = TRUE] /\ UNCHANGED warnings
          ELSE Warn("gid_map_" \o r) /\ UNCHANGED kern
    /\ OuterGoto("unshare_ns")
    /\ UNCHANGED << runVars, imgVars, inp, argv, environ, args, innerPc, hostname, innerEnd, exec >>

WriteGidMap ==
    /\ outerPc = "gid_map"
    /\ Step("gid_map")
    /\ \E r \in {"ok", "open_fails", "write_fails"} :
          IF r = "ok" THEN OuterGoto("unshare_ns") /\ kern' = [kern EXCEPT !.gidMap = TRUE]
          ELSE OuterDie /\ UNCHANGED kern
    /\ UNCHANGED << runVars, imgVars, inp, argv, environ, args, innerPc, warnings, hostname, innerEnd, exec >>

\* Stage 2: unshare(CLONE_NEWPID | CLONE_NEWNS | CLONE_NEWUTS | CLONE_NEWIPC |
\* CLONE_NEWCGROUP).
UnshareNamespaces ==
    /\ outerPc = "unshare_ns"
    /\ Step("unshare_ns")
    /\ \E ok \in BOOLEAN : IF ok THEN OuterGoto("sethostname") ELSE OuterDie
    /\ UNCHANGED << runVars, imgVars, inp, argv, environ, args, innerPc, warnings, hostname, innerEnd, exec, kern >>

Sethostname ==
    /\ outerPc = "sethostname"
    /\ Step("sethostname")
    /\ hostname' = Substr(args.cgroup_id, 0, HostnameMax)
    /\ \E ok \in Outcomes({TRUE}, {FALSE}) :
          IF ok THEN kern' = [kern EXCEPT !.utsName = hostname'] /\ UNCHANGED warnings
          ELSE Warn("sethostname") /\ UNCHANGED kern
    /\ OuterGoto("fork")
    /\ UNCHANGED << runVars, imgVars, inp, argv, environ, args, innerPc, innerEnd, exec >>

\* A faulty variant of Fork: the child branch goes straight to setup_filesystem.
ForkSkipsCgroups ==
    /\ outerPc = "fork"
    /\ Step("fork")
    /\ \E ok \in BOOLEAN :
          IF ok THEN OuterGoto("waitpid") /\ innerPc' = "fs_private"
          ELSE OuterDie /\ UNCHANGED innerPc
    /\ UNCHANGED << runVars, imgVars, inp, argv, environ, args, warnings, hostname, innerEnd, exec, kern >>

\* fork(): the parent goes on to waitpid, the child to setup_cgroups.
Fork ==
    /\ outerPc = "fork"
    /\ Step("fork")
    /\ \E ok \in BOOLEAN :
          IF ok THEN OuterGoto("waitpid") /\ innerPc' = "cg_mkdir_parent"
          ELSE OuterDie /\ UNCHANGED innerPc
    /\ UNCHANGED << runVars, imgVars, inp, argv, environ, args, warnings, hostname, innerEnd, exec, kern >>

\* setup_cgroups.
CgMkdirParent ==
    /\ innerPc = "cg_mkdir_parent"
    /\ Step("cg_mkdir_parent")
    /\ \E r \in {"ok", "eexist", "fail"} :
          /\ IF r = "fail" THEN Warn("cg_mkdir_parent") ELSE UNCHANGED warnings
          /\ kern' = [kern EXCEPT !.cgParent = IF r = "fail" THEN "fail" ELSE "present"]
    /\ InnerGoto("cg_mkdir_leaf")
    /\ UNCHANGED << runVars, imgVars, inp, argv, environ, args, outerPc, hostname, outerExit, exec >>

CgMkdirLeaf ==
    /\ innerPc = "cg_mkdir_leaf"
    /\ Step("cg_mkdir_leaf")
    /\ \E r \in {"created", "eexist", "fail"} :
          /\ IF r = "fail" THEN Warn("cg_mkdir_leaf") ELSE UNCHANGED warnings
          /\ kern' = [kern EXCEPT !.cgLeaf = r]
    /\ InnerGoto(IF args.mem_limit # "" THEN "cg_memory_max" ELSE "cg_procs")
    /\ UNCHANGED << runVars, imgVars, inp, argv, environ, args, outerPc, hostname, outerExit, exec >>

\* The outcomes of opening and writing a file of the leaf directory: the open
\* fails when the leaf does not exist.
LeafFileOutcomes ==
    IF kern.cgLeaf = "fail" THEN {"open_fails"}
    ELSE {"ok", "open_fails", "write_fails"}

CgMemoryMax ==
    /\ innerPc = "cg_memory_max"
    /\ Step("cg_memory_max")
    /\ \E r \in LeafFileOutcomes :
          IF r = "ok"
            THEN kern' = [kern EXCEPT !.memoryMax = Append(@, args.mem_limit)]
                 /\ UNCHANGED warnings
            ELSE Warn("cg_memory_max_" \o r) /\ UNCHANGED kern
    /\ InnerGoto("cg_procs")
    /\ UNCHANGED << runVars, imgVars, inp, argv, environ, args, outerPc, hostname, outerExit, exec >>

\* A faulty variant of CgProcs: a failure to join the cgroup is die().
CgProcsFatal ==
    /\ innerPc = "cg_procs"
    /\ Step("cg_procs")
    /\ \E r \in LeafFileOutcomes :
          IF r = "ok"
            THEN kern' = [kern EXCEPT !.inCgroup = TRUE] /\ InnerGoto("fs_private")
            ELSE InnerDie /\ UNCHANGED kern
    /\ UNCHANGED << runVars, imgVars, inp, argv, environ, args, outerPc, warnings, hostname, outerExit, exec >>

CgProcs ==
    /\ innerPc = "cg_procs"
    /\ Step("cg_procs")
    /\ \E r \in LeafFileOutcomes :
          IF r = "ok"
            THEN kern' = [kern EXCEPT !.inCgroup = TRUE] /\ UNCHANGED warnings
            ELSE Warn("cg_procs_" \o r) /\ UNCHANGED kern
    /\ InnerGoto("fs_private")
    /\ UNCHANGED << runVars, imgVars, inp, argv, environ, args, outerPc, hostname, outerExit, exec >>

\* setup_filesystem, steps 1 to 6: the pivot.
FsPrivate ==
    /\ innerPc = "fs_private"
    /\ Step("fs_private")
    /\ \E r \in Outcomes({"ok", "einval"}, {"fail"}) :
          IF r = "fail" THEN Warn("fs_private") ELSE UNCHANGED warnings
    /\ InnerGoto("fs_bind")
    /\ UNCHANGED << runVars, imgVars, inp, argv, environ, args, outerPc, hostname, outerExit, exec, kern >>

FsBind ==
    /\ innerPc = "fs_bind"
    /\ Step("fs_bind")
    /\ \E ok \in BOOLEAN :
          IF ok THEN InnerGoto("fs_mkdir_old") /\ kern' = [kern EXCEPT !.bound = TRUE]
          ELSE InnerDie /\ UNCHANGED kern
    /\ UNCHANGED << runVars, imgVars, inp, argv, environ, args, outerPc, warnings, hostname, outerExit, exec >>

\* A faulty variant of FsMkdirOld: pivot_root is attempted whatever mkdir says.
FsMkdirOldUnchecked ==
    /\ innerPc = "fs_mkdir_old"
    /\ Step("fs_mkdir_old")
    /\ \E r \in {"ok", "eexist", "fail"} :
          kern' = [kern EXCEPT !.oldRootDir = (r # "fail")]
    /\ InnerGoto("fs_pivot")
    /\ UNCHANGED << runVars, imgVars, inp, argv, environ, args, outerPc, warnings, hostname, outerExit, exec >>

FsMkdirOld ==
    /\ innerPc = "fs_mkdir_old"
    /\ Step("fs_mkdir_old")
    /\ \E r \in {"ok", "eexist", "fail"} :
          IF r = "fail" THEN InnerDie /\ UNCHANGED kern
          ELSE InnerGoto("fs_pivot") /\ kern' = [kern EXCEPT !.oldRootDir = TRUE]
    /\ UNCHANGED << runVars, imgVars, inp, argv, environ, args, outerPc, warnings, hostname, outerExit, exec >>

FsPivot ==
    /\ innerPc = "fs_pivot"
    /\ Step("fs_pivot")
    /\ \E ok \in BOOLEAN :
          IF ok THEN InnerGoto("fs_chdir_root")
                     /\ kern' = [kern EXCEPT !.oldRoot = "mounted", !.root = args.rootfs]
          ELSE InnerDie /\ UNCHANGED kern
    /\ UNCHANGED << runVars, imgVars, inp, argv, environ, args, outerPc, warnings, hostname, outerExit, exec >>

FsChdirRoot ==
    /\ innerPc = "fs_chdir_root"
    /\ Step("fs_chdir_root")
    /\ \E ok \in BOOLEAN :
          IF ok THEN InnerGoto("fs_umount") /\ kern' = [kern EXCEPT !.cwd = "/"]
          ELSE InnerDie /\ UNCHANGED kern
    /\ UNCHANGED << runVars, imgVars, inp, argv, environ, args, outerPc, warnings, hostname, outerExit, exec >>

\* umount2("/.old_root", MNT_DETACH), and rmdir when it succeeded.
FsUmount ==
    /\ innerPc = "fs_umount"
    /\ Step("fs_umount")
    /\ \E r \in Outcomes({"ok"}, {"ok_rmdir_fails", "fail"}) :
          CASE r = "ok" ->
                  kern' = [kern EXCEPT !.oldRoot = "detached"] /\ UNCHANGED warnings
            [] r = "ok_rmdir_fails" ->
                  kern' = [kern EXCEPT !.oldRoot = "detached"] /\ Warn("rmdir_old_root")
            [] OTHER -> UNCHANGED kern /\ Warn("umount_old_root")
    /\ InnerGoto("mount_proc")
    /\ UNCHANGED << runVars, imgVars, inp, argv, environ, args, outerPc, hostname, outerExit, exec >>

\* A faulty variant of Mount: a failed mount is logged and the setup goes on.
MountOptional(at, target, next) ==
    /\ innerPc = at
    /\ Step(at)
    /\ \E ok \in BOOLEAN :
          IF ok THEN kern' = [kern EXCEPT !.mounts = Append(@, target)] /\ UNCHANGED warnings
          ELSE Warn(at) /\ UNCHANGED kern
    /\ InnerGoto(next)
    /\ UNCHANGED << runVars, imgVars, inp, argv, environ, args, outerPc, hostname, outerExit, exec >>

\* setup_filesystem, steps 7 to 9: a required mount; failure is die().
Mount(at, target, next) ==
    /\ innerPc = at
    /\ Step(at)
    /\ \E ok \in BOOLEAN :
          IF ok THEN InnerGoto(next) /\ kern' = [kern EXCEPT !.mounts = Append(@, target)]
          ELSE InnerDie /\ UNCHANGED kern
    /\ UNCHANGED << runVars, imgVars, inp, argv, environ, args, outerPc, warnings, hostname, outerExit, exec >>

MountProc == Mount("mount_proc", "/proc", "mount_dev")
MountDev == Mount("mount_dev", "/dev", "mount_sys")
MountSys == Mount("mount_sys", "/sys", "chdir_workdir")

ChdirWorkdir ==
    /\ innerPc = "chdir_workdir"
    /\ Step("chdir_workdir")
    /\ \E ok \in BOOLEAN :
          IF ok THEN InnerGoto("execve")
                     /\ kern' = [kern EXCEPT !.cwd = args.workdir, !.inWorkdir = TRUE]
          ELSE InnerDie /\ UNCHANGED kern
    /\ UNCHANGED << runVars, imgVars, inp, argv, environ, args, outerPc, warnings, hostname, outerExit, exec >>

\* A faulty variant of BuildEnvp: the inherited environment is kept in front.
BuildEnvpInherit(env_vars, host, env) ==
    LET keys == MapKeysInOrder(DOMAIN env_vars)
        inh  == MapKeysInOrder(DOMAIN env)
    IN  [i \in 1..Len(inh) |-> inh[i] \o "=" \o env[inh[i]]]
        \o [i \in 1..Len(keys) |-> keys[i] \o "=" \o env_vars[keys[i]]]
        \o (IF "PATH" \notin DOMAIN env_vars THEN << "PATH=" \o DefaultPath >> ELSE << >>)
        \o << "NEOSHELL_CONTAINER=true", "HOSTNAME=" \o host >>

\* The envp main assembles: env_storage in order.  The process environment
\* (env) is cleared by clearenv() and not read.
BuildEnvp(env_vars, host, env) ==
    LET keys == MapKeysInOrder(DOMAIN env_vars)
    IN  [i \in 1..Len(keys) |-> keys[i] \o "=" \o env_vars[keys[i]]]
        \o (IF "PATH" \notin DOMAIN env_vars THEN << "PATH=" \o DefaultPath >> ELSE << >>)
        \o << "NEOSHELL_CONTAINER=true", "HOSTNAME=" \o host >>

\* Stage 3: execve(cmd_argv[0], cmd_argv, envp).
Execve ==
    /\ innerPc = "execve"
    /\ Step("execve")
    /\ exec' = << [path |-> args.cmd[1], argv |-> args.cmd,
                   envp |-> BuildEnvp(args.env_vars, hostname, environ)] >>
    /\ \E ok \in BOOLEAN :
          IF ok THEN InnerGoto("running") /\ kern' = [kern EXCEPT !.program = TRUE]
          ELSE InnerDie /\ UNCHANGED kern
    /\ UNCHANGED << runVars, imgVars, inp, argv, environ, args, outerPc, warnings, hostname, outerExit >>

\* The target program ends with exit status k.
ProgramExit ==
    /\ innerPc = "running"
    /\ \E k \in ExitCodes :
          innerEnd' = [kind |-> "exit", n |-> k, core |-> FALSE]
    /\ innerPc' = "dead"
    /\ UNCHANGED << runVars, imgVars, inp, argv, environ, args, outerPc, trace, warnings, hostname,
                    outerExit, exec, kern >>

\* The inner process, before or after execve, is killed by a signal.
InnerKilled ==
    /\ innerPc \notin {"none", "dead"}
    /\ \E s \in KillSignals, c \in BOOLEAN :
          /\ c => s = 11
          /\ innerEnd' = [kind |-> "signal", n |-> s, core |-> c]
    /\ innerPc' = "dead"
    /\ UNCHANGED << runVars, imgVars, inp, argv, environ, args, outerPc, trace, warnings, hostname,
                    outerExit, exec, kern >>

\* The wait status waitpid stores for an ended child, and <sys/wait.h>.
WaitStatus(e) ==
    IF e.kind = "exit" THEN (e.n % 256) * 256
    ELSE e.n + (IF e.core THEN 128 ELSE 0)

WEXITSTATUS(status) == (status \div 256) % 256

\* A faulty variant of OuterExitCode: exit(status) with the raw wait status.
OuterExitCodeRaw(status) == status % 256

\* The status the parent branch of main exits with.
OuterExitCode(status) == WEXITSTATUS(status)

\* The parent: waitpid(child_pid, &status, 0) returns once the child has
\* ended (no handler is installed and the child is its own, so it does not
\* fail), then exit.
Waitpid ==
    /\ outerPc = "waitpid"
    /\ innerPc = "dead"
    /\ outerExit' = OuterExitCode(WaitStatus(innerEnd))
    /\ outerPc' = "exited"
    /\ UNCHANGED << runVars, imgVars, inp, argv, environ, args, innerPc, trace, warnings, hostname,
                    innerEnd, exec, kern >>

LauncherNext ==
    \/ ParseArgsStep \/ UnshareUser \/ WriteSetgroups \/ WriteUidMap \/ WriteGidMap
    \/ UnshareNamespaces \/ Sethostname \/ Fork
    \/ CgMkdirParent \/ CgMkdirLeaf \/ CgMemoryMax \/ CgProcs
    \/ FsPrivate \/ FsBind \/ FsMkdirOld \/ FsPivot \/ FsChdirRoot \/ FsUmount
    \/ MountProc \/ MountDev \/ MountSys \/ ChdirWorkdir \/ Execve
    \/ ProgramExit \/ InnerKilled \/ Waitpid

Next == LauncherNext

Spec == Init /\ [][Next]_vars


(***************************************************************************)
(* Claims about the launcher (specification Spec).                         *)
(***************************************************************************)
Range(f) == {f[i] : i \in DOMAIN f}

\* The stage a system call of the trace belongs to.
StageOf(call) ==
    CASE call \in {"unshare_user", "setgroups", "uid_map", "gid_map"} -> "user"
      [] call \in {"unshare_ns", "sethostname"} -> "namespaces"
      [] call = "fork" -> "fork"
      [] call \in {"cg_mkdir_parent", "cg_mkdir_leaf", "cg_memory_max", "cg_procs"} -> "cgroup"
      [] call \in {"fs_private", "fs_bind", "fs_mkdir_old", "fs_pivot", "fs_chdir_root",
                   "fs_umount"} -> "pivot"
      [] call \in {"mount_proc", "mount_dev", "mount_sys"} -> "mounts"
      [] call = "chdir_workdir" -> "chdir"
      [] OTHER -> call

StageOrder ==
    << "user", "namespaces", "fork", "cgroup", "pivot", "mounts", "chdir", "execve" >>

\* The stages of a trace, each run of calls of one stage counted once.
RECURSIVE StagesOf(_)
StagesOf(t) ==
    IF t = << >> THEN << >>
    ELSE LET rest == StagesOf(Tail(t))
             st   == StageOf(Head(t))
         IN  IF rest # << >> /\ Head(rest) = st THEN rest ELSE << st >> \o rest

IsPrefix(a, b) == Len(a) <= Len(b) /\ SubSeq(b, 1, Len(a)) = a

\* The name of an envp entry "NAME=value", and getenv on an envp.
EnvName(e) == SubSeq(e, 1, Find(e, "=") - 1)
EnvValue(e) == SubSeq(e, Find(e, "=") + 1, Len(e))
EntriesOf(envp, name) == {i \in 1..Len(envp) : EnvName(envp[i]) = name}
Getenv(envp, name) ==
    LET is == EntriesOf(envp, name)
    IN  IF is = {} THEN << >>
        ELSE << EnvValue(envp[CHOOSE i \in is : \A j \in is : i <= j]) >>

\* C1: in every execution the stages begun so far are an initial part of
\* user namespace (with identity maps), other namespaces, fork, cgroup, pivot,
\* mounts of /proc, /dev and /sys, chdir, execve, each one run of calls; an
\* execution that reaches execve has run all of them in that order, the three
\* mounts as /proc, /dev, /sys.
C1_StagesInOrder ==
    /\ IsPrefix(StagesOf(trace), StageOrder)
    /\ exec # << >> =>
          /\ StagesOf(trace) = StageOrder
          /\ kern.mounts = << "/proc", "/dev", "/sys" >>

C1_Witness ==
    /\ exec # << >>
    /\ innerPc = "running"
    /\ "cg_memory_max" \in Range(trace)

\* C2: when the inner process was killed by signal s, the outer process exits
\* with status 128 + s.
C2_SignalExitStatus ==
    (outerPc = "exited" /\ innerEnd.kind = "signal") => outerExit = 128 + innerEnd.n

\* C3: when the inner process ended normally with status k, the outer process
\* exits with status k.
C3_ExitStatusForwarded ==
    (outerPc = "exited" /\ innerEnd.kind = "exit") => outerExit = innerEnd.n

C3_Witness ==
    /\ outerPc = "exited"
    /\ exec # << >>
    /\ innerEnd = [kind |-> "exit", n |-> 255, core |-> FALSE]

\* C6: the argv passed to execve is the image header's command list, token
\* for token, and the program executed is its first token.
C6_ArgvIsImageCmd ==
    exec # << >> => (exec[1].argv = inp.cmd /\ exec[1].path = inp.cmd[1])

\* C7: the names of the environment passed to execve are exactly the names
\* set by the launcher's --env options, PATH, HOSTNAME and NEOSHELL_CONTAINER;
\* PATH has the default value when no --env option set it and the option's
\* value otherwise; nothing comes from the launcher's own environment.
C7_EnvNotInherited ==
    exec # << >> =>
        LET envp  == exec[1].envp
            names == {EnvName(envp[i]) : i \in 1..Len(envp)}
        IN  /\ names = DOMAIN args.env_vars \cup {"PATH", "HOSTNAME", "NEOSHELL_CONTAINER"}
            /\ {EnvValue(envp[i]) : i \in EntriesOf(envp, "PATH")}
                 = {IF "PATH" \in DOMAIN args.env_vars THEN args.env_vars["PATH"]
                    ELSE DefaultPath}
            /\ \A n \in DOMAIN environ \ DOMAIN args.env_vars :
                  \A i \in 1..Len(envp) : envp[i] # n \o "=" \o environ[n]

C7_Witness ==
    /\ exec # << >>
    /\ DOMAIN args.env_vars = {"A"}
    /\ "HOME" \in DOMAIN environ
    /\ "PATH=" \o DefaultPath \in Range(exec[1].envp)

\* The caller's overrides as a map: a well-formed KEY=VALUE sets KEY, a later
\* one winning; malformed entries are skipped.
RECURSIVE OverrideMap(_)
OverrideMap(es) ==
    IF es = << >> THEN EmptyMap
    ELSE LET m  == OverrideMap(SubSeq(es, 1, Len(es) - 1))
             e  == es[Len(es)]
             eq == Find(e, "=")
         IN  IF eq > 1 THEN MapPut(m, SubSeq(e, 1, eq - 1), SubSeq(e, eq + 1, Len(e)))
             ELSE m

\* C8: at execve a name defined in the image env and in the caller's overrides
\* has the caller's value, and a name defined only in the image env has the
\* image's value.
C8_CallerWins ==
    exec # << >> =>
        LET over == OverrideMap(inp.argvEnv)
        IN  \A i \in 1..Len(inp.env) :
                Getenv(exec[1].envp, inp.env[i][1])
                  = << IF inp.env[i][1] \in DOMAIN over THEN over[inp.env[i][1]]
                       ELSE inp.env[i][2] >>

\* C9: the environment passed to execve has exactly one HOSTNAME entry, the
\* cgroup id truncated to 63 bytes.
C9_OneHostname ==
    exec # << >> =>
        {exec[1].envp[i] : i \in EntriesOf(exec[1].envp, "HOSTNAME")}
          = {"HOSTNAME=" \o Substr(args.cgroup_id, 0, HostnameMax)}
        /\ Cardinality(EntriesOf(exec[1].envp, "HOSTNAME")) = 1


(***************************************************************************)
(* The image format: bytes.  JSON texts, the zlib stream, SHA-256 and tar   *)
(* archives are modelled at a small scale: a JSON object is '{', two bytes  *)
(* (key, value) per field, '}'; a zlib stream is a stored block (header,    *)
(* length, data, checksum); a digest is one number; an archive is two       *)
(* bytes (name, content) per entry and a zero trailer.                      *)
(***************************************************************************)
NSI_MAGIC == << 78, 83, 73, 33 >>      \* Buffer.from('NSI!')

VERSION == 1

HEADER_FIXED_LEN == 12

MaxHeaderLen == 10 * 1024 * 1024

\* buf.writeUInt32BE(n)
U32BE(n) == << (n \div 16777216) % 256, (n \div 65536) % 256, (n \div 256) % 256, n % 256 >>

\* buf.readUInt32BE(off), off counted from 0
ReadUInt32BE(buf, off) ==
    buf[off + 1] * 16777216 + buf[off + 2] * 65536 + buf[off + 3] * 256 + buf[off + 4]

\* Buffer.alloc(len) followed by fileHandle.read(buf, 0, len, pos): the bytes
\* the file has from pos on, and zeros where the file has ended.
ReadAt(f, pos, len) ==
    [i \in 1..len |-> IF pos + i <= Len(f) THEN f[pos + i] ELSE 0]

\* The field names of a header, nested ones by their path; a field's key byte
\* in a JSON text is 64 plus its place in this list.
KeyNames ==
    << "imageName", "version", "schemaVersion", "created", "sizeKB", "size", "hash",
       "workDir", "cmd", "env", "runtime.cmd", "runtime.workDir", "runtime.env" >>

KeyBase == 64

KeyCode(k) == KeyBase + (CHOOSE i \in 1..Len(KeyNames) : KeyNames[i] = k)

\* A JSON value: kind "object" with its fields in insertion order as
\* << key, value >> pairs, or a kind without fields.
JsonObject(fields) == [kind |-> "object", fields |-> fields]

JsonOther(kind) == [kind |-> kind, fields |-> << >>]

Has(v, k) == \E i \in 1..Len(v.fields) : v.fields[i][1] = k

Get(v, k) == v.fields[CHOOSE i \in 1..Len(v.fields) : v.fields[i][1] = k][2]

\* obj[k] = x: an existing key keeps its place, a new one goes last.
SetField(fields, k, x) ==
    IF \E i \in 1..Len(fields) : fields[i][1] = k
    THEN [i \in 1..Len(fields) |-> IF fields[i][1] = k THEN << k, x >> ELSE fields[i]]
    ELSE Append(fields, << k, x >>)

NullCode == 0

\* JSON.stringify(obj)
RECURSIVE FieldsText(_)
FieldsText(fields) ==
    IF fields = << >> THEN << >>
    ELSE << KeyCode(Head(fields)[1]), Head(fields)[2] >> \o FieldsText(Tail(fields))

JsonStringify(fields) == << 123 >> \o FieldsText(fields) \o << 125 >>

RECURSIVE TextFields(_)
TextFields(t) ==
    IF t = << >> THEN << >>
    ELSE << << KeyNames[t[1] - KeyBase], t[2] >> >> \o TextFields(SubSeq(t, 3, Len(t)))

\* JSON.parse(text): << >> is a SyntaxError, otherwise << value >>.  "7",
\* "null" and "[]" are the texts of a number, of null and of an array.
JsonParse(text) ==
    CASE text = << 55 >> -> << JsonOther("number") >>
      [] text = << 110, 117, 108, 108 >> -> << JsonOther("null") >>
      [] text = << 91, 93 >> -> << JsonOther("array") >>
      [] /\ Len(text) >= 2 /\ text[1] = 123 /\ text[Len(text)] = 125
         /\ Len(text) % 2 = 0
         /\ \A i \in 1..((Len(text) - 2) \div 2) :
                text[2 * i] \in (KeyBase + 1)..(KeyBase + Len(KeyNames))
           -> << JsonObject(TextFields(SubSeq(text, 2, Len(text) - 1))) >>
      [] OTHER -> << >>

\* header.cmd.join(...), Object.entries(header.env), header.runtime.cmd.join(...)
\* succeed; each throws a TypeError otherwise.
HasCmd(v) == v.kind = "object" /\ Has(v, "cmd") /\ Get(v, "cmd") # NullCode

HasEnv(v) == v.kind = "object" /\ Has(v, "env") /\ Get(v, "env") # NullCode

HasRuntimeCmd(v) ==
    v.kind = "object" /\ Has(v, "runtime.cmd") /\ Get(v, "runtime.cmd") # NullCode

\* crypto.createHash('sha256'): update(chunk) and digest().
ShaInit == 7

ShaModulus == 251

RECURSIVE ShaUpdate(_, _)
ShaUpdate(h, bytes) ==
    IF bytes = << >> THEN h
    ELSE ShaUpdate((h * 31 + Head(bytes) + 1) % ShaModulus, Tail(bytes))

Sha(bytes) == ShaUpdate(ShaInit, bytes)

\* zlib.deflate(data): stream header, length, the data, checksum.
RECURSIVE SumBytes(_)
SumBytes(bytes) == IF bytes = << >> THEN 0 ELSE Head(bytes) + SumBytes(Tail(bytes))

Checksum(data) == (SumBytes(data) + 1) % 256

ZlibHeader == 120

\* A compressor that loses the last byte of its input (a faulty variant of
\* Deflate).
DeflateLossy(data) ==
    LET kept == SubSeq(data, 1, Len(data) - 1)
    IN  << ZlibHeader, Len(kept) >> \o kept \o << Checksum(kept) >>

Deflate(data) == << ZlibHeader, Len(data) >> \o data \o << Checksum(data) >>

\* zlib.unzip(bytes) / the inflater at the end of its input.
Inflate(bytes) ==
    IF /\ Len(bytes) >= 3
       /\ bytes[1] = ZlibHeader
       /\ bytes[2] = Len(bytes) - 3
       /\ bytes[Len(bytes)] = Checksum(SubSeq(bytes, 3, Len(bytes) - 1))
    THEN [ok |-> TRUE, out |-> SubSeq(bytes, 3, Len(bytes) - 1)]
    ELSE [ok |-> FALSE, out |-> << >>]

\* tar.pack(dir): the entries of the directory and the end-of-archive trailer.
RECURSIVE Pack(_)
Pack(dir) ==
    IF dir = << >> THEN << 0 >>
    ELSE << Head(dir)[1], Head(dir)[2] >> \o Pack(Tail(dir))

\* tar.extract accepts the stream: nothing at all, or entries with a name
\* followed by the trailer.
WellFormedTar(t) ==
    \/ t = << >>
    \/ /\ Len(t) % 2 = 1
       /\ t[Len(t)] = 0
       /\ \A i \in 1..(Len(t) \div 2) : t[2 * i - 1] # 0

\* The directory tar.extract makes of a well-formed stream.
RECURSIVE Unpack(_)
Unpack(t) ==
    IF Len(t) < 2 THEN << >>
    ELSE << << t[1], t[2] >> >> \o Unpack(SubSeq(t, 3, Len(t)))

\* What the builders make of a configuration and a tar stream.  A
\* configuration field is a value byte, NullCode when it is not given.
LatestCode == 20       \* 'latest'

AppDirCode == 21       \* '/app'

EmptyEnvCode == 22     \* {}

CreatedCode == 30      \* new Date().toISOString()

SchemaVersion == 1

Or(x, dflt) == IF x # NullCode THEN x ELSE dflt

CeilDiv(n, d) == (n + d - 1) \div d

\* The header the CLI build command writes.
CliHeaderFields(config, tarBuffer, hash) ==
    << << "imageName", config.name >>,
       << "version", config.version >>,
       << "schemaVersion", SchemaVersion >>,
       << "created", CreatedCode >>,
       << "sizeKB", CeilDiv(Len(tarBuffer), 1024) >>,
       << "hash", hash >>,
       << "workDir", Or(config.workDir, AppDirCode) >>,
       << "cmd", Or(config.cmd, NullCode) >>,
       << "env", Or(config.env, EmptyEnvCode) >> >>

\* The headerJson object lib buildImage hands to createNsiImage.
LibHeaderJson(config) ==
    << << "imageName", config.name >>,
       << "version", Or(config.version, LatestCode) >>,
       << "created", NullCode >>,
       << "hash", NullCode >>,
       << "size", NullCode >>,
       << "runtime.cmd", config.cmd >>,
       << "runtime.workDir", Or(config.workDir, AppDirCode) >>,
       << "runtime.env", Or(config.env, EmptyEnvCode) >> >>

\* headerJson after createNsiImage has set hash, created and size.
LibHeaderFields(headerJson, payloadHash, compressedLen) ==
    SetField(SetField(SetField(headerJson, "hash", payloadHash),
                      "created", CreatedCode),
             "size", compressedLen)

\* The bytes of an image file.
ImageBytes(versionBytes, headerText, compressedPayload) ==
    NSI_MAGIC \o versionBytes \o U32BE(Len(headerText)) \o headerText \o compressedPayload

CliImage(config, tarBuffer) ==
    ImageBytes(<< 0, 0, 0, 1 >>,
               JsonStringify(CliHeaderFields(config, tarBuffer, Sha(tarBuffer))),
               Deflate(tarBuffer))

LibImage(config, rawPayload) ==
    ImageBytes(U32BE(VERSION),
               JsonStringify(LibHeaderFields(LibHeaderJson(config), Sha(rawPayload),
                                             Len(Deflate(rawPayload)))),
               Deflate(rawPayload))

\* The configuration and the directories of the images used.
ConfigA == [name |-> 1, version |-> 2, cmd |-> 3, workDir |-> 4, env |-> 5, build |-> << >>]

DirA == << << 1, 7 >> >>

DirB == << << 1, 8 >> >>

\* The header texts of the images used: one as the CLI build writes it, one
\* as the library build writes it, one that is not JSON.
TextCli == JsonStringify(CliHeaderFields(ConfigA, Pack(DirA), Sha(Pack(DirA))))

TextLib ==
    JsonStringify(LibHeaderFields(LibHeaderJson(ConfigA), Sha(Pack(DirA)),
                                  Len(Deflate(Pack(DirA)))))

TextBad == << 120 >>

HeaderTexts == {TextCli, TextLib, TextBad}

\* The payloads of the images used: the one the headers were written for,
\* one of another directory (its hash differs from the headers'), one that
\* is not a zlib stream, one whose content is not an archive.
Payloads == {Deflate(Pack(DirA)), Deflate(Pack(DirB)), << 3 >>, Deflate(<< 9 >>)}

UnzipOk(payload) == Inflate(payload).ok

PayloadHash(payload) == Sha(Inflate(payload).out)

TarOk(payload) == WellFormedTar(Inflate(payload).out)

\* calculatedHash !== header.hash
HashMismatch(h, payload) == ~Has(h, "hash") \/ Get(h, "hash") # PayloadHash(payload)

MagicChoices == {NSI_MAGIC, << 78, 83, 73, 63 >>, << 0, 0, 0, 0 >>}

VersionChoices == {VERSION, 2}

MkFile(magic, version, text, payload) ==
    magic \o U32BE(version) \o U32BE(Len(text)) \o text \o payload

FileChoices ==
    {MkFile(m, v, t, p) : m \in MagicChoices, v \in VersionChoices,
                          t \in HeaderTexts, p \in Payloads}
    \cup {<< >>, << 78, 83, 73 >>}
    \cup {NSI_MAGIC \o U32BE(VERSION) \o U32BE(n) \o TextCli \o Deflate(Pack(DirA)) :
              n \in {MaxHeaderLen, MaxHeaderLen + 1}}
    \cup {NSI_MAGIC \o U32BE(VERSION) \o U32BE(Len(t)) \o t :
              t \in {JsonStringify(<< >>), << 55 >>}}

\* headerLenBuffer.readUInt32BE(0) / buffer.readUInt32BE(8)
DeclaredLen(f) == ReadUInt32BE(ReadAt(f, 8, 4), 0)

\* JSON.parse of the len bytes read at offset 12 into a zeroed buffer.  A
\* buffer the file does not fill ends in a zero byte, which no JSON text does.
ParseHeaderAt(f, len) ==
    IF len > 0 /\ HEADER_FIXED_LEN + len > Len(f) THEN << >>
    ELSE JsonParse(ReadAt(f, HEADER_FIXED_LEN, len))

\* The bytes after the header, as both drivers take them.
PayloadOf(f) ==
    LET off == HEADER_FIXED_LEN + DeclaredLen(f)
    IN  IF off >= Len(f) THEN << >> ELSE SubSeq(f, off + 1, Len(f))

\* readNsiImage (lib/image.js): what the 'data' and 'end' handlers settle
\* the promise with once the whole file has been delivered.
ReadNsiImage(f) ==
    IF Len(f) < HEADER_FIXED_LEN THEN [ok |-> FALSE, why |-> "incomplete", header |-> << >>]
    ELSE IF SubSeq(f, 1, 4) # NSI_MAGIC THEN [ok |-> FALSE, why |-> "magic", header |-> << >>]
    ELSE IF ReadUInt32BE(f, 4) # VERSION THEN [ok |-> FALSE, why |-> "version", header |-> << >>]
    ELSE IF ReadUInt32BE(f, 8) > MaxHeaderLen THEN [ok |-> FALSE, why |-> "too_large", header |-> << >>]
    ELSE IF Len(f) < HEADER_FIXED_LEN + ReadUInt32BE(f, 8)
         THEN [ok |-> FALSE, why |-> "incomplete", header |-> << >>]
    ELSE LET h == JsonParse(SubSeq(f, 13, 12 + ReadUInt32BE(f, 8)))
         IN  IF h = << >> THEN [ok |-> FALSE, why |-> "json", header |-> << >>]
             ELSE [ok |-> TRUE, why |-> "", header |-> h]

(***************************************************************************)
(* The run command of the CLI (src/cli/commands/run.js under               *)
(* src/cli/index.js).  One action per awaited step of the handler and one  *)
(* per event the process receives afterwards.                              *)
(***************************************************************************)
Alive == proc.state = "running"

\* The launcher, idle (the run specification leaves it alone).
LauncherIdle ==
    /\ inp = [cmd |-> << "/s" >>, env |-> << >>, workDir |-> << "/app" >>,
              argvEnv |-> << >>, memGiven |-> << >>, mem |-> DefaultMem]
    /\ argv = << >> /\ environ = HostEnv /\ args = ArgsInit
    /\ outerPc = "idle" /\ innerPc = "none" /\ trace = << >> /\ warnings = {}
    /\ hostname = "" /\ innerEnd = NotEnded /\ outerExit = -1 /\ exec = << >>
    /\ kern = KernInit

RunInit ==
    /\ LauncherIdle
    /\ ImageIdle
    /\ drv \in {"cli", "lib"}
    /\ file \in FileChoices
    /\ hPc = "start"
    /\ header = << >>
    /\ rootfsPath = << >>
    /\ rootfsExists = FALSE
    /\ child = "none"
    \* index.js registers its listener when parse() returns, which is at the
    \* handler's first await; bin/nsi.js registers none.
    /\ listeners = IF drv = "cli" THEN << "index" >> ELSE << >>
    /\ rmInFlight = 0
    /\ timerArmed = FALSE
    /\ exitCode = << >>
    /\ proc = [state |-> "running", status |-> 0]
    /\ hist = HistInit
    /\ options = OptionsIdle

\* A removal without the force option (a faulty variant of RmForce).
RmForceOff == FALSE

\* fs.rm(tempExtractPath, { recursive: true, force: true })
RmForce == TRUE

\* What fs.rm settles with: with force, a path that is not there is no
\* error.
RmOutcome(exists) == IF exists \/ RmForce THEN "ok" ELSE "enoent"

\* cleanup(): starts fs.rm when tempExtractPath is set; the removal and the
\* reset of tempExtractPath happen when the rm finishes (RmDone).
CleanupStarts(n) == IF rootfsPath # << >> THEN n + 1 ELSE n

\* The handler's catch block.
HCatch ==
    /\ rmInFlight' = CleanupStarts(rmInFlight)
    /\ exitCode' = << 1 >>
    /\ hPc' = "done"

HGoto(l) ==
    /\ hPc' = l
    /\ UNCHANGED << rmInFlight, exitCode >>

HFrame == UNCHANGED << launcherVars, imgVars, drv, file, options, listeners, timerArmed, proc >>

\* findSandboxExecutable(): returns a path or throws.
HFindSandbox ==
    /\ Alive /\ drv = "cli" /\ hPc = "start"
    /\ \/ HGoto("open")
       \/ HCatch
    /\ HFrame
    /\ UNCHANGED << header, rootfsPath, rootfsExists, child, hist >>

\* fs.open(imageFullPath, 'r')
HOpen ==
    /\ Alive /\ drv = "cli" /\ hPc = "open"
    /\ \/ HGoto("magic")
       \/ HCatch
    /\ HFrame
    /\ UNCHANGED << header, rootfsPath, rootfsExists, child, hist >>

\* The four magic bytes are read and compared with NSI_MAGIC.
HReadMagic ==
    /\ Alive /\ drv = "cli" /\ hPc = "magic"
    /\ IF ReadAt(file, 0, 4) = NSI_MAGIC THEN HGoto("version") ELSE HCatch
    /\ HFrame
    /\ UNCHANGED << header, rootfsPath, rootfsExists, child, hist >>

\* The version field is read into versionBuffer and not looked at.
HReadVersion ==
    /\ Alive /\ drv = "cli" /\ hPc = "version"
    /\ HGoto("header")
    /\ HFrame
    /\ UNCHANGED << header, rootfsPath, rootfsExists, child, hist >>

\* The header length is read, a buffer of that length is filled from offset
\* 12 and parsed; header.cmd.join throws when the header has no cmd.
HReadHeader ==
    /\ Alive /\ drv = "cli" /\ hPc = "header"
    /\ LET headerLength == DeclaredLen(file)
           h == ParseHeaderAt(file, headerLength)
       IN  /\ IF h # << >> /\ HasCmd(h[1])
              THEN header' = h /\ HGoto("mkdtemp")
              ELSE header' = h /\ HCatch
           /\ hist' = [hist EXCEPT !.headerAlloc = headerLength, !.headerParsed = TRUE]
    /\ HFrame
    /\ UNCHANGED << rootfsPath, rootfsExists, child >>

\* tempExtractPath = await fs.mkdtemp(...)
HMkdtemp ==
    /\ Alive /\ drv = "cli" /\ hPc = "mkdtemp"
    /\ \/ /\ rootfsPath' = << TmpDir >>
          /\ rootfsExists' = TRUE
          /\ hist' = [hist EXCEPT !.rootfsCreated = TRUE]
          /\ HGoto("unzip")
       \/ /\ HCatch
          /\ UNCHANGED << rootfsPath, rootfsExists, hist >>
    /\ HFrame
    /\ UNCHANGED << header, child >>

\* The rest of the file is read and handed to zlib.unzip; the hash of the
\* result is compared with header.hash, a mismatch is a warning.
HUnzip ==
    /\ Alive /\ drv = "cli" /\ hPc = "unzip"
    /\ IF UnzipOk(PayloadOf(file))
       THEN /\ hist' = [hist EXCEPT !.hashWarned = HashMismatch(header[1], PayloadOf(file)),
                                        !.hashChecked = TRUE]
            /\ HGoto("extract")
       ELSE /\ HCatch
            /\ UNCHANGED hist
    /\ HFrame
    /\ UNCHANGED << header, rootfsPath, rootfsExists, child >>

\* An extraction whose 'error' is not awaited (a faulty variant of HExtract).
HExtractUnchecked ==
    /\ Alive /\ drv = "cli" /\ hPc = "extract"
    /\ hist' = [hist EXCEPT !.extracted = TarOk(PayloadOf(file))]
    /\ HGoto("spawn")
    /\ HFrame
    /\ UNCHANGED << header, rootfsPath, rootfsExists, child >>

\* tar.extract(tempExtractPath): 'finish' or 'error'.
HExtract ==
    /\ Alive /\ drv = "cli" /\ hPc = "extract"
    /\ IF TarOk(PayloadOf(file))
       THEN /\ hist' = [hist EXCEPT !.extracted = TRUE]
            /\ HGoto("spawn")
       ELSE /\ HCatch
            /\ UNCHANGED hist
    /\ HFrame
    /\ UNCHANGED << header, rootfsPath, rootfsExists, child >>

\* sandboxArgs is assembled (Object.entries(header.env) throws when the
\* header has no env), the launcher is spawned and the handler registers its
\* listeners and returns.  A spawn that fails gives a child without a pid
\* whose 'error' is emitted on the next tick.
HSpawn ==
    /\ Alive /\ drv = "cli" /\ hPc = "spawn"
    /\ IF HasEnv(header[1])
       THEN /\ \E c \in {"running", "spawn_failed"} : child' = c
            /\ listeners' = Append(listeners, "run")
            /\ hist' = [hist EXCEPT !.spawned = TRUE]
            /\ HGoto("done")
       ELSE /\ HCatch
            /\ UNCHANGED << child, listeners, hist >>
    /\ UNCHANGED << launcherVars, imgVars, drv, file, options, timerArmed, proc >>
    /\ UNCHANGED << header, rootfsPath, rootfsExists >>

\* The launcher could not be started: 'error' and then 'close' are emitted
\* in the same tick, so both listeners run: cleanup() twice, process.exitCode
\* first 1 and then the (negative) code of 'close'.
SpawnErrno == -2

HChildError ==
    /\ Alive /\ drv = "cli" /\ child = "spawn_failed"
    /\ rmInFlight' = CleanupStarts(CleanupStarts(rmInFlight))
    /\ exitCode' = << SpawnErrno >>
    /\ child' = "closed"
    /\ UNCHANGED << launcherVars, imgVars, drv, file, options, hPc, header, rootfsPath, rootfsExists,
                    listeners, timerArmed, proc, hist >>

\* The launcher has ended: 'close' with its exit code, or with null when a
\* signal killed it.
CloseCodes == {<< 0 >>, << 1 >>, << 7 >>, << >>}
Closed(h, code) ==
    [h EXCEPT !.close = IF code = << >> THEN "signal" ELSE "exit",
              !.code = IF code = << >> THEN 0 ELSE code[1]]

HChildClose ==
    /\ Alive /\ drv = "cli" /\ child = "running"
    /\ \E code \in CloseCodes : exitCode' = code /\ hist' = Closed(hist, code)
    /\ rmInFlight' = CleanupStarts(rmInFlight)
    /\ child' = "closed"
    /\ UNCHANGED << launcherVars, imgVars, drv, file, options, hPc, header, rootfsPath, rootfsExists,
                    listeners, timerArmed, proc >>

\* An fs.rm started by cleanup() finishes: the directory is gone and
\* tempExtractPath is reset; an error of fs.rm is caught and logged, and
\* tempExtractPath stays.
RmDone ==
    /\ Alive /\ drv = "cli" /\ rmInFlight > 0
    /\ rmInFlight' = rmInFlight - 1
    /\ rootfsExists' = FALSE
    /\ IF RmOutcome(rootfsExists) = "ok"
       THEN /\ rootfsPath' = << >>
            /\ hist' = [hist EXCEPT !.rmDone = @ + 1]
       ELSE /\ rootfsPath' = rootfsPath
            /\ hist' = [hist EXCEPT !.rmDone = @ + 1, !.rmErrors = @ + 1]
    /\ UNCHANGED << launcherVars, imgVars, drv, file, options, hPc, header, child, listeners,
                    timerArmed, exitCode, proc >>

(***************************************************************************)
(* SIGINT and the end of the driver process.                               *)
(***************************************************************************)
\* What one SIGINT listener does to r = [exited, status, termSent, timer].
\* "index" is the listener of src/cli/index.js, "run" the one the handler
\* registers after the spawn.
Listener(l, r) ==
    CASE l = "index" -> [r EXCEPT !.exited = TRUE, !.status = 0]
      [] l = "run"   -> [r EXCEPT !.termSent = (child = "running"), !.timer = TRUE]

\* process.emit('SIGINT'): the listeners run in registration order;
\* process.exit() inside one ends the process there.
RECURSIVE RunListeners(_, _)
RunListeners(ls, r) ==
    IF ls = << >> \/ r.exited THEN r
    ELSE RunListeners(Tail(ls), Listener(Head(ls), r))

SIGINT == 2

\* The driver process receives SIGINT.  Without a listener the signal's
\* default action ends the process.
Sigint ==
    /\ Alive
    /\ LET r == RunListeners(listeners, [exited |-> FALSE, status |-> 0,
                                         termSent |-> FALSE, timer |-> FALSE])
       IN  /\ proc' = IF listeners = << >> THEN [state |-> "killed", status |-> SIGINT]
                      ELSE IF r.exited THEN [state |-> "exited", status |-> r.status]
                      ELSE proc
           /\ timerArmed' = (timerArmed \/ r.timer)
           /\ hist' = [hist EXCEPT !.sigint = TRUE,
                                   !.sigintWhileChild = (@ \/ child = "running"),
                                   !.termSent = (@ \/ r.termSent)]
    /\ UNCHANGED << launcherVars, imgVars, drv, file, options, hPc, header, rootfsPath, rootfsExists,
                    child, listeners, rmInFlight, exitCode >>

\* The status the process ends with when the event loop runs empty.
ExitStatus(code) == IF code = << >> THEN 0 ELSE code[1] % 256

\* Nothing is left to wait for: the handler has returned, no child, no
\* file-system operation and no timer is pending.
NaturalExit ==
    /\ Alive /\ hPc = "done"
    /\ child \in {"none", "closed"}
    /\ rmInFlight = 0
    /\ ~timerArmed
    /\ proc' = [state |-> "exited", status |-> ExitStatus(exitCode)]
    /\ UNCHANGED << launcherVars, imgVars, drv, file, options, hPc, header, rootfsPath, rootfsExists,
                    child, listeners, rmInFlight, timerArmed, exitCode, hist >>

(***************************************************************************)
(* runContainer (lib/run.js), started by bin/nsi.                          *)
(***************************************************************************)
RunDir == ".nsi-run"

LFrame == UNCHANGED << launcherVars, imgVars, drv, file, options, listeners, rmInFlight, timerArmed >>

\* The catch block, followed by the finally block.
LCatch ==
    /\ exitCode' = << 1 >>
    /\ hPc' = "finally"

LGoto(l) ==
    /\ hPc' = l
    /\ UNCHANGED exitCode

\* The helper binary is looked for; process.exit(1) when it is missing.
LCheckHelper ==
    /\ Alive /\ drv = "lib" /\ hPc = "start"
    /\ \/ hPc' = "read" /\ UNCHANGED proc
       \/ proc' = [state |-> "exited", status |-> 1] /\ UNCHANGED hPc
    /\ LFrame
    /\ UNCHANGED << header, rootfsPath, rootfsExists, child, exitCode, hist >>

\* readNsiImage, then header.runtime.cmd.join, which throws when the header
\* has no runtime.
LReadImage ==
    /\ Alive /\ drv = "lib" /\ hPc = "read"
    /\ LET r == ReadNsiImage(file)
       IN  /\ header' = r.header
           /\ IF r.ok /\ HasRuntimeCmd(r.header[1]) THEN LGoto("ensure") ELSE LCatch
           /\ hist' = [hist EXCEPT !.headerParsed = r.why \in {"json", ""},
                                   !.tooLarge = r.why = "too_large"]
    /\ LFrame
    /\ UNCHANGED << rootfsPath, rootfsExists, child, proc >>

\* rootfsPath is set, then fs.ensureDir(rootfsPath).
LEnsureRootfs ==
    /\ Alive /\ drv = "lib" /\ hPc = "ensure"
    /\ rootfsPath' = << RunDir >>
    /\ \/ /\ rootfsExists' = TRUE
          /\ hist' = [hist EXCEPT !.rootfsCreated = TRUE]
          /\ LGoto("subdirs")
       \/ /\ LCatch
          /\ UNCHANGED << rootfsExists, hist >>
    /\ LFrame
    /\ UNCHANGED << header, child, proc >>

\* app, proc, usr/bin and tmp under the rootfs.
LEnsureSubdirs ==
    /\ Alive /\ drv = "lib" /\ hPc = "subdirs"
    /\ \/ LGoto("extract")
       \/ LCatch
    /\ LFrame
    /\ UNCHANGED << header, rootfsPath, rootfsExists, child, proc, hist >>

\* extractNsiPayload(imageInfo.getPayloadStream(), appPath)
LExtract ==
    /\ Alive /\ drv = "lib" /\ hPc = "extract"
    /\ IF UnzipOk(PayloadOf(file)) /\ TarOk(PayloadOf(file))
       THEN /\ hist' = [hist EXCEPT !.extracted = TRUE]
            /\ LGoto("copy")
       ELSE /\ LCatch
            /\ UNCHANGED hist
    /\ LFrame
    /\ UNCHANGED << header, rootfsPath, rootfsExists, child, proc >>

\* The host's node binary is copied into the rootfs and made executable.
LCopyNode ==
    /\ Alive /\ drv = "lib" /\ hPc = "copy"
    /\ \/ LGoto("spawn")
       \/ LCatch
    /\ LFrame
    /\ UNCHANGED << header, rootfsPath, rootfsExists, child, proc, hist >>

\* The command is looked for inside the rootfs (an Error when it is not
\* there), then the helper is spawned and its end awaited.
LSpawn ==
    /\ Alive /\ drv = "lib" /\ hPc = "spawn"
    /\ \/ /\ \E c \in {"running", "spawn_failed"} : child' = c
          /\ hist' = [hist EXCEPT !.spawned = TRUE]
          /\ LGoto("await")
       \/ /\ LCatch
          /\ UNCHANGED << child, hist >>
    /\ LFrame
    /\ UNCHANGED << header, rootfsPath, rootfsExists, proc >>

\* 'close': the promise resolves with the code, which becomes
\* process.exitCode.
LChildClose ==
    /\ Alive /\ drv = "lib" /\ hPc = "await" /\ child = "running"
    /\ \E code \in CloseCodes : exitCode' = code /\ hist' = Closed(hist, code)
    /\ child' = "closed"
    /\ hPc' = "finally"
    /\ LFrame
    /\ UNCHANGED << header, rootfsPath, rootfsExists, proc >>

\* 'error': the promise rejects; the 'close' that follows finds it settled.
LChildError ==
    /\ Alive /\ drv = "lib" /\ hPc = "await" /\ child = "spawn_failed"
    /\ LCatch
    /\ child' = "closed"
    /\ LFrame
    /\ UNCHANGED << header, rootfsPath, rootfsExists, proc, hist >>

\* finally: rootfsPath && await fs.exists(rootfsPath)
LFinally ==
    /\ Alive /\ drv = "lib" /\ hPc = "finally"
    /\ LGoto(IF rootfsPath # << >> /\ rootfsExists THEN "remove" ELSE "done")
    /\ LFrame
    /\ UNCHANGED << header, rootfsPath, rootfsExists, child, proc, hist >>

\* await fs.remove(rootfsPath)
LRemove ==
    /\ Alive /\ drv = "lib" /\ hPc = "remove"
    /\ rootfsExists' = FALSE
    /\ LGoto("done")
    /\ LFrame
    /\ UNCHANGED << header, rootfsPath, child, proc, hist >>

RunNext ==
    \/ HFindSandbox \/ HOpen \/ HReadMagic \/ HReadVersion \/ HReadHeader
    \/ HMkdtemp \/ HUnzip \/ HExtract \/ HSpawn \/ HChildError \/ HChildClose
    \/ RmDone \/ Sigint \/ NaturalExit
    \/ LCheckHelper \/ LReadImage \/ LEnsureRootfs \/ LEnsureSubdirs \/ LExtract
    \/ LCopyNode \/ LSpawn \/ LChildClose \/ LChildError \/ LFinally \/ LRemove

SpecRun == RunInit /\ [][RunNext]_vars


(***************************************************************************)
(* Claims about the run drivers (specification SpecRun).                   *)
(***************************************************************************)
Ended == proc.state \in {"exited", "killed"}

\* C4: on every exit path of the run command taken after the rootfs
\* directory has been created (the container exits, the spawn fails,
\* decompression or extraction fails, SIGINT arrives while the container
\* runs), the directory no longer exists when the driver process has exited.
C4_RootfsRemoved ==
    (Ended /\ hist.rootfsCreated /\ (hist.sigint => hist.sigintWhileChild))
        => ~rootfsExists

\* The status with which the run handler's grace timer ends the process.
GraceExitStatus == 130

\* C5: when SIGINT reaches the CLI's run driver while the launcher child is
\* running, the driver has sent SIGTERM to the child before it exits, and it
\* exits only after the child has closed or through the grace timer.
C5_SigintGrace ==
    (drv = "cli" /\ hist.sigintWhileChild /\ Ended)
        => /\ hist.termSent
           /\ (child = "closed" \/ proc.status = GraceExitStatus)

\* The image does not start with 'NSI!' or its version field is not 1.
BadPrefix ==
    \/ ReadAt(file, 0, 4) # NSI_MAGIC
    \/ ReadUInt32BE(ReadAt(file, 4, 4), 0) # VERSION

\* C10: an image with a wrong magic or a version other than 1 is rejected by
\* both readers: the run creates no rootfs, extracts nothing and spawns no
\* launcher.
C10_BadPrefixRejected ==
    BadPrefix => (~hist.rootfsCreated /\ ~hist.extracted /\ ~hist.spawned)

\* The file has the magic and a length field.
HasLengthField(f) == Len(f) >= HEADER_FIXED_LEN /\ SubSeq(f, 1, 4) = NSI_MAGIC

\* C11: an image whose declared header length exceeds 10 MiB is rejected by
\* either reader before a buffer of the declared length is allocated and
\* before any header byte is JSON-parsed; a declared length of exactly
\* 10 MiB is not rejected by that check.
C11_OversizedHeaderRejected ==
    HasLengthField(file)
        => /\ DeclaredLen(file) > MaxHeaderLen
              => (hist.headerAlloc = -1 /\ ~hist.headerParsed /\ ~hist.extracted)
           /\ DeclaredLen(file) = MaxHeaderLen => ~hist.tooLarge

\* The file has a header both readers parse, its payload decompresses, and the
\* SHA-256 of the decompressed payload differs from the header's hash.
Mismatch(f) ==
    /\ ReadNsiImage(f).ok
    /\ UnzipOk(PayloadOf(f))
    /\ HashMismatch(ReadNsiImage(f).header[1], PayloadOf(f))

\* C18: when the SHA-256 of the decompressed payload differs from the
\* header's hash, a run that extracts the payload has emitted a warning: the
\* mismatch is never silent (and never aborts the run).
C18_MismatchWarned ==
    (hist.extracted /\ Mismatch(file)) => hist.hashWarned

(***************************************************************************)
(* The builders: buildImage with createNsiImage (lib/build.js,              *)
(* lib/image.js) and the build command of the CLI (cli/commands/build.js). *)
(* One action per awaited step or stream event.                            *)
(***************************************************************************)
\* config.build: the build commands declared.
BuildCmds == << "a", "b" >>

ConfigChoices ==
    {ConfigA,
     [ConfigA EXCEPT !.version = NullCode],
     [ConfigA EXCEPT !.cmd = NullCode],
     [ConfigA EXCEPT !.name = NullCode],
     [ConfigA EXCEPT !.workDir = NullCode, !.env = NullCode],
     [ConfigA EXCEPT !.build = BuildCmds],
     [ConfigA EXCEPT !.build = << "a", "", "b" >>],
     [ConfigA EXCEPT !.cmd = NullCode, !.build = BuildCmds],
     [ConfigA EXCEPT !.name = NullCode, !.build = BuildCmds]}

\* What tar.pack delivers: the archive of a directory with one file, of an
\* empty directory, and a stream that ends without a byte.
TarChoices == {Pack(DirA), Pack(<< >>), << >>}

\* An image written by an earlier build.
OldImage == LibImage(ConfigA, Pack(DirB))

DiskChoices == {NoFile, [exists |-> TRUE, bytes |-> OldImage]}

BuildFrame == UNCHANGED << launcherVars, runVars, rd >>

Building(who) == bld.who = who

\* The promise of createNsiImage is rejected / the handler's try block
\* throws: the finally block comes next.
BuildThrow(why) == bld' = [bld EXCEPT !.pc = "finally", !.err = why]

\* buildImage: the config is read and checked, then fs.ensureDir makes the
\* scratch directory .nsi-build-<uuid>/app (outside the try block).
LibStart ==
    /\ Building("lib") /\ bld.pc = "start"
    /\ IF bld.config.name = NullCode \/ bld.config.cmd = NullCode
       THEN bld' = [bld EXCEPT !.pc = "failed", !.err = "config"]
       ELSE \/ bld' = [bld EXCEPT !.pc = "copy", !.scratch = TRUE, !.scratchMade = TRUE]
            \/ bld' = [bld EXCEPT !.pc = "failed", !.err = "io"]
    /\ UNCHANGED disk
    /\ BuildFrame

\* The includes are copied into the scratch directory; a copy may throw.
LibCopy ==
    /\ Building("lib") /\ bld.pc = "copy"
    /\ \/ bld' = [bld EXCEPT !.pc = "steps"]
       \/ BuildThrow("copy")
    /\ UNCHANGED disk
    /\ BuildFrame

\* A loop that goes on after a command that failed (a faulty variant of
\* StepFailed).
StepFailedIgnored(b) == [b EXCEPT !.cmdIx = b.cmdIx + 1]

\* execSync throws for a command that exits non-zero: the loop is left.
StepFailed(b) == [b EXCEPT !.pc = "finally", !.err = "step"]

\* execSync(command) for the command the loop is at: it is run, and it
\* exits zero or not (ran and exits keep the commands run and how they ended).
ExecSync(b) ==
    LET b1 == [b EXCEPT !.ran = Append(b.ran, b.config.build[b.cmdIx])]
    IN  {[b1 EXCEPT !.cmdIx = b.cmdIx + 1, !.exits = Append(b.exits, 0)],
         StepFailed([b1 EXCEPT !.exits = Append(b.exits, 1)])}

\* One build step of buildImage.
LibBuildStep ==
    /\ Building("lib") /\ bld.pc = "steps" /\ bld.cmdIx <= Len(bld.config.build)
    /\ bld' \in ExecSync(bld)
    /\ UNCHANGED disk
    /\ BuildFrame

\* After the last build step headerJson is made and createNsiImage starts
\* tar.pack.
LibStepsDone ==
    /\ Building("lib") /\ bld.pc = "steps" /\ bld.cmdIx > Len(bld.config.build)
    /\ bld' = [bld EXCEPT !.pc = "pack", !.headerJson = LibHeaderJson(bld.config),
                          !.hash = ShaInit]
    /\ UNCHANGED disk
    /\ BuildFrame

\* A 'data' listener that keeps the chunk and does not hash it (a faulty
\* variant of OnTarData).
OnTarDataUnhashed(b, chunk) ==
    [b EXCEPT !.chunks = b.chunks \o chunk, !.packPos = b.packPos + Len(chunk)]

\* tarStream 'data': hash.update(chunk) and payloadChunks.push(chunk).
OnTarData(b, chunk) ==
    [b EXCEPT !.hash = ShaUpdate(b.hash, chunk), !.chunks = b.chunks \o chunk,
              !.packPos = b.packPos + Len(chunk)]

LibTarData ==
    /\ Building("lib") /\ bld.pc = "pack"
    /\ \E n \in 1..(Len(bld.tar) - bld.packPos) :
           bld' = OnTarData(bld, SubSeq(bld.tar, bld.packPos + 1, bld.packPos + n))
    /\ UNCHANGED disk
    /\ BuildFrame

\* tarStream 'error'.
LibTarError ==
    /\ Building("lib") /\ bld.pc = "pack"
    /\ BuildThrow("tar")
    /\ UNCHANGED disk
    /\ BuildFrame

\* tarStream 'end': rawPayload, payloadHash, headerJson.hash and .created
\* are set and zlib.deflate is started.
LibTarEnd ==
    /\ Building("lib") /\ bld.pc = "pack" /\ bld.packPos = Len(bld.tar)
    /\ bld' = [bld EXCEPT !.pc = "deflate",
                          !.headerJson = SetField(SetField(bld.headerJson, "hash", bld.hash),
                                                  "created", CreatedCode)]
    /\ UNCHANGED disk
    /\ BuildFrame

\* The callback of zlib.deflate: an error rejects; otherwise headerJson.size
\* is set, finalBuffer is put together and fs.writeFile is called.
LibDeflated ==
    /\ Building("lib") /\ bld.pc = "deflate"
    /\ \/ LET compressedPayload == Deflate(bld.chunks)
              hj == SetField(bld.headerJson, "size", Len(compressedPayload))
          IN  bld' = [bld EXCEPT !.pc = "open", !.headerJson = hj,
                                 !.final = ImageBytes(U32BE(VERSION), JsonStringify(hj),
                                                      compressedPayload)]
       \/ BuildThrow("zlib")
    /\ UNCHANGED disk
    /\ BuildFrame

\* fs.writeFile opens imagePath with flag 'w': the file is created or
\* truncated; or the open fails.
LibOpen ==
    /\ Building("lib") /\ bld.pc = "open"
    /\ \/ /\ disk' = [exists |-> TRUE, bytes |-> << >>]
          /\ bld' = [bld EXCEPT !.pc = "write"]
       \/ /\ BuildThrow("io")
          /\ UNCHANGED disk
    /\ BuildFrame

\* fs.writeFile writes finalBuffer, as many bytes at a time as the system
\* takes; a failed write rejects and leaves what was written.
LibWrite ==
    /\ Building("lib") /\ bld.pc = "write"
    /\ \/ \E n \in 1..(Len(bld.final) - Len(disk.bytes)) :
              /\ disk' = [disk EXCEPT !.bytes = SubSeq(bld.final, 1, Len(disk.bytes) + n)]
              /\ bld' = [bld EXCEPT !.pc = IF Len(disk.bytes) + n = Len(bld.final)
                                           THEN "finally" ELSE "write"]
       \/ /\ BuildThrow("io")
          /\ UNCHANGED disk
    /\ BuildFrame

\* A removal made only when the build succeeded (a faulty variant of
\* RemoveScratch).
RemoveScratchOnSuccess(b) == IF b.err = "" THEN [b EXCEPT !.scratch = FALSE] ELSE b

\* fs.remove(tempBuildDir) / fsPromises.unlink(tempTarPath) in the finally
\* block.
RemoveScratch(b) == [b EXCEPT !.scratch = FALSE]

\* finally: fs.remove(tempBuildDir); buildImage returns or rethrows.
LibFinally ==
    /\ Building("lib") /\ bld.pc = "finally"
    /\ bld' = [RemoveScratch(bld) EXCEPT !.pc = IF bld.err = "" THEN "done" ELSE "failed"]
    /\ UNCHANGED disk
    /\ BuildFrame

\* The CLI build command: the YAML is read and checked.
CliStart ==
    /\ Building("cli") /\ bld.pc = "start"
    /\ IF bld.config.name = NullCode \/ bld.config.version = NullCode
       THEN BuildThrow("config")
       ELSE bld' = [bld EXCEPT !.pc = "steps"]
    /\ UNCHANGED disk
    /\ BuildFrame

\* One build command of the CLI: an empty one is skipped, the others run
\* with execSync.
CliBuildStep ==
    /\ Building("cli") /\ bld.pc = "steps" /\ bld.cmdIx <= Len(bld.config.build)
    /\ IF bld.config.build[bld.cmdIx] = ""
       THEN bld' = [bld EXCEPT !.cmdIx = bld.cmdIx + 1]
       ELSE bld' \in ExecSync(bld)
    /\ UNCHANGED disk
    /\ BuildFrame

\* After the last build command tempTarPath is set.
CliStepsDone ==
    /\ Building("cli") /\ bld.pc = "steps" /\ bld.cmdIx > Len(bld.config.build)
    /\ bld' = [bld EXCEPT !.pc = "pack", !.tmpSet = TRUE]
    /\ UNCHANGED disk
    /\ BuildFrame

\* tar.pack(buildContextDir) is piped into the temporary tar file, which
\* fs.createWriteStream creates; a pack error rejects and leaves the file, a
\* writer error rejects and may have made no file.
CliPack ==
    /\ Building("cli") /\ bld.pc = "pack"
    /\ \/ bld' = [bld EXCEPT !.pc = "readTar", !.chunks = bld.tar, !.packPos = Len(bld.tar),
                             !.scratch = TRUE, !.scratchMade = TRUE]
       \/ bld' = [bld EXCEPT !.pc = "finally", !.err = "tar",
                             !.scratch = TRUE, !.scratchMade = TRUE]
       \/ BuildThrow("tar")
    /\ UNCHANGED disk
    /\ BuildFrame

\* tarBuffer is read back; an empty one throws; the hash is taken over
\* tarBuffer and zlib.deflate is started.
CliReadTar ==
    /\ Building("cli") /\ bld.pc = "readTar"
    /\ IF Len(bld.chunks) = 0
       THEN BuildThrow("empty")
       ELSE bld' = [bld EXCEPT !.pc = "deflate", !.hash = Sha(bld.chunks)]
    /\ UNCHANGED disk
    /\ BuildFrame

\* The callback of zlib.deflate; then the header JSON is made.
CliDeflated ==
    /\ Building("cli") /\ bld.pc = "deflate"
    /\ \/ LET hj == CliHeaderFields(bld.config, bld.chunks, bld.hash)
          IN  bld' = [bld EXCEPT !.pc = "open", !.headerJson = hj,
                                 !.final = ImageBytes(<< 0, 0, 0, 1 >>, JsonStringify(hj),
                                                      Deflate(bld.chunks))]
       \/ BuildThrow("zlib")
    /\ UNCHANGED disk
    /\ BuildFrame

\* fsPromises.open(outputFullPath, 'w')
CliOpen ==
    /\ Building("cli") /\ bld.pc = "open"
    /\ \/ /\ disk' = [exists |-> TRUE, bytes |-> << >>]
          /\ bld' = [bld EXCEPT !.pc = "write", !.part = 1]
       \/ /\ BuildThrow("io")
          /\ UNCHANGED disk
    /\ BuildFrame

\* Where each of the five writes ends in the image: the magic, the version,
\* the header length, the header, the compressed payload.
PartEnd(final, part) ==
    CASE part = 1 -> 4
      [] part = 2 -> 8
      [] part = 3 -> HEADER_FIXED_LEN
      [] part = 4 -> HEADER_FIXED_LEN + ReadUInt32BE(final, 8)
      [] OTHER -> Len(final)

WriteParts == 5

\* One awaited fileHandle.write; after the fifth, fileHandle.close().
CliWrite ==
    /\ Building("cli") /\ bld.pc = "write"
    /\ \/ /\ disk' = [disk EXCEPT !.bytes = SubSeq(bld.final, 1, PartEnd(bld.final, bld.part))]
          /\ bld' = [bld EXCEPT !.part = bld.part + 1,
                                !.pc = IF bld.part = WriteParts THEN "finally" ELSE "write"]
       \/ /\ BuildThrow("io")
          /\ UNCHANGED disk
    /\ BuildFrame

\* catch (process.exitCode = 1) and finally: when tempTarPath was set the
\* temporary tar file is unlinked (a warning when there is none).
CliFinally ==
    /\ Building("cli") /\ bld.pc = "finally"
    /\ bld' = [(IF bld.tmpSet THEN RemoveScratch(bld) ELSE bld)
                   EXCEPT !.pc = IF bld.err = "" THEN "done" ELSE "failed"]
    /\ UNCHANGED disk
    /\ BuildFrame

BuildOver == bld.pc \in {"none", "done", "failed", "crashed"}

\* The building process is killed (or the machine stops) at any point.
Crash ==
    /\ ~BuildOver
    /\ bld' = [bld EXCEPT !.pc = "crashed"]
    /\ UNCHANGED disk
    /\ BuildFrame

BuildNext ==
    \/ LibStart \/ LibCopy \/ LibBuildStep \/ LibStepsDone \/ LibTarData \/ LibTarError \/ LibTarEnd \/ LibDeflated
    \/ LibOpen \/ LibWrite \/ LibFinally
    \/ CliStart \/ CliBuildStep \/ CliStepsDone \/ CliPack \/ CliReadTar \/ CliDeflated
    \/ CliOpen \/ CliWrite \/ CliFinally
    \/ Crash

(***************************************************************************)
(* readNsiImage and getPayloadStream (lib/image.js) over the file stream   *)
(* of fs.createReadStream: the file arrives in chunks of any size.  sbuf   *)
(* is what the stream has read and not yet emitted; while the stream is    *)
(* paused it keeps reading into sbuf and emits nothing.                    *)
(***************************************************************************)
ReadFrame == UNCHANGED << launcherVars, runVars, bld, disk >>

\* A handler without the resolved flag (a faulty variant of HandleError).
HandleErrorUnguarded(r, why) ==
    [r EXCEPT !.promise = "rejected", !.why = why, !.settles = r.settles + 1,
              !.destroyed = TRUE]

\* handleError(err): the first call rejects and destroys the stream.
HandleError(r, why) ==
    IF r.promise = "pending"
    THEN [r EXCEPT !.promise = "rejected", !.why = why, !.settles = r.settles + 1,
                   !.destroyed = TRUE]
    ELSE r

\* A stream left flowing (a faulty variant of Pause).
PauseOmitted(r) == r

\* stream.pause()
Pause(r) == [r EXCEPT !.flowing = FALSE]

\* The first part of the 'data' listener: the fixed header, once twelve
\* bytes are there.
ParseFixed(r) ==
    IF ~r.hasInfo /\ Len(r.buffer) >= HEADER_FIXED_LEN
    THEN IF SubSeq(r.buffer, 1, 4) # NSI_MAGIC THEN HandleError(r, "magic")
         ELSE IF ReadUInt32BE(r.buffer, 4) # VERSION THEN HandleError(r, "version")
         ELSE IF ReadUInt32BE(r.buffer, 8) > MaxHeaderLen THEN HandleError(r, "too_large")
         ELSE [r EXCEPT !.hasInfo = TRUE, !.version = ReadUInt32BE(r.buffer, 4),
                        !.headerJsonLen = ReadUInt32BE(r.buffer, 8)]
    ELSE r

\* The second part: the JSON header, once all its bytes are there; then the
\* promise resolves and the stream is paused.
ParseJson(r) ==
    IF /\ r.promise = "pending" /\ r.hasInfo /\ r.json = << >>
       /\ Len(r.buffer) >= HEADER_FIXED_LEN + r.headerJsonLen
    THEN LET payloadOffset == HEADER_FIXED_LEN + r.headerJsonLen
             j == JsonParse(SubSeq(r.buffer, HEADER_FIXED_LEN + 1, payloadOffset))
         IN  IF j = << >> THEN HandleError(r, "json")
             ELSE Pause([r EXCEPT !.json = j, !.payloadOffset = payloadOffset,
                                  !.promise = "resolved", !.settles = r.settles + 1])
    ELSE r

\* The stream emits 'data': the listener of readNsiImage returns at once
\* when the promise is settled; the listener stream.pipe(inflater) added,
\* when there is one, writes the chunk to the inflater.  A chunk no listener
\* takes is gone (kept in dropped).
OnData(r, chunk) ==
    IF r.promise = "pending"
    THEN ParseJson(ParseFixed([r EXCEPT !.buffer = r.buffer \o chunk]))
    ELSE IF r.piped THEN [r EXCEPT !.inflIn = r.inflIn \o chunk]
    ELSE [r EXCEPT !.dropped = r.dropped \o chunk]

\* An 'end' listener that lets the promise be (a faulty variant of EndRejects).
EndIgnored(r) == r

\* The 'end' listener of readNsiImage rejects when the promise is pending.
EndRejects(r) == HandleError(r, "incomplete")

\* The stream emits 'end': the listener of readNsiImage, then inflater.end()
\* when the stream is piped.
OnEnd(r) ==
    LET r1 == EndRejects([r EXCEPT !.endEmitted = TRUE])
    IN  IF r.piped THEN [r1 EXCEPT !.inflEnded = TRUE] ELSE r1

Started == rd.promise # "idle"

Live == Started /\ ~rd.destroyed /\ ~rd.endEmitted

\* readNsiImage(imagePath): createReadStream and the listeners; adding the
\* 'data' listener sets the stream flowing.  A file that cannot be opened
\* gives 'error'.
RStart ==
    /\ rd.promise = "idle" /\ bld.pc \in {"none", "done"} /\ hPc = "idle"
    /\ IF disk.exists
       THEN rd' = [rd EXCEPT !.promise = "pending", !.flowing = TRUE]
       ELSE rd' = HandleError([rd EXCEPT !.promise = "pending"], "io")
    /\ ReadFrame

\* The stream reads the next bytes of the file: emitted at once when the
\* stream is flowing and holds nothing, kept in sbuf otherwise.
RPush ==
    /\ Live /\ ~rd.ended /\ rd.pos < Len(disk.bytes)
    /\ \E n \in 1..(Len(disk.bytes) - rd.pos) :
           LET chunk == SubSeq(disk.bytes, rd.pos + 1, rd.pos + n)
               r == [rd EXCEPT !.pos = rd.pos + n]
           IN  IF rd.flowing /\ rd.sbuf = << >>
               THEN rd' = OnData(r, chunk)
               ELSE rd' = [r EXCEPT !.sbuf = rd.sbuf \o chunk]
    /\ ReadFrame

\* The flowing stream emits from what it holds.
REmit ==
    /\ Live /\ rd.flowing /\ rd.sbuf # << >>
    /\ \E k \in 1..Len(rd.sbuf) :
           rd' = OnData([rd EXCEPT !.sbuf = SubSeq(rd.sbuf, k + 1, Len(rd.sbuf))],
                        SubSeq(rd.sbuf, 1, k))
    /\ ReadFrame

\* The stream reads the end of the file.
REof ==
    /\ Live /\ ~rd.ended /\ rd.pos = Len(disk.bytes)
    /\ rd' = [rd EXCEPT !.ended = TRUE]
    /\ ReadFrame

\* 'end' is emitted by a flowing stream that has read the end of the file and
\* holds nothing.
REnd ==
    /\ Live /\ rd.ended /\ rd.flowing /\ rd.sbuf = << >>
    /\ rd' = OnEnd(rd)
    /\ ReadFrame

\* reject(err) of extractNsiPayload: a promise settles once.
ExtReject(r, why) ==
    IF r.ext = "pending" THEN [r EXCEPT !.ext = "rejected", !.extWhy = why] ELSE r

\* The 'error' listener getPayloadStream adds to the file stream: the error
\* is emitted on the output stream, where extractNsiPayload rejects on it.
OnStreamError(r) == IF r.piped THEN ExtReject(r, "io") ELSE r

\* A read of the file fails: 'error' is emitted and the stream destroyed.
RError ==
    /\ Live /\ ~rd.ended
    /\ rd' = OnStreamError([HandleError(rd, "io") EXCEPT !.destroyed = TRUE,
                                                         !.ioFailed = TRUE])
    /\ ReadFrame

\* getPayloadStream(): the buffered payload is sliced off, the stream is
\* piped into the inflater (which sets it flowing again, from the next tick
\* on) and the buffered payload is written to the inflater.  The caller
\* hands the stream to extractNsiPayload in the same tick, which pipes it
\* into the tar extractor and returns the pending promise.
GetPayloadStream ==
    /\ rd.promise = "resolved" /\ ~rd.piped
    /\ rd' = [rd EXCEPT !.piped = TRUE, !.flowing = TRUE,
                        !.bufferedLen = Len(rd.buffer) - rd.payloadOffset,
                        !.inflIn = SubSeq(rd.buffer, rd.payloadOffset + 1, Len(rd.buffer)),
                        !.buffer = << >>,
                        !.ext = "pending"]
    /\ ReadFrame

\* What the inflater has been given cannot begin a zlib stream.
CorruptPrefix(bytes) ==
    \/ Len(bytes) >= 1 /\ bytes[1] # ZlibHeader
    \/ Len(bytes) >= 2 /\ Len(bytes) > bytes[2] + 3
    \/ Len(bytes) >= 2 /\ Len(bytes) = bytes[2] + 3 /\ ~Inflate(bytes).ok

\* The inflater emits 'error', on corrupt input or at the end of an
\* incomplete one: the listener emits an error on the output stream and
\* destroys the file stream.
InflaterError ==
    /\ rd.piped /\ rd.infl = "open"
    /\ CorruptPrefix(rd.inflIn) \/ (rd.inflEnded /\ ~Inflate(rd.inflIn).ok)
    /\ rd' = ExtReject([rd EXCEPT !.infl = "error", !.destroyed = TRUE], "zlib")
    /\ ReadFrame

\* The inflater, ended with a complete stream, has given out all of the
\* decompressed bytes and ends; the pipe ends the output stream.
InflaterEnd ==
    /\ rd.piped /\ rd.infl = "open"
    /\ rd.inflEnded /\ Inflate(rd.inflIn).ok
    /\ rd' = [rd EXCEPT !.infl = "ended", !.tarIn = Inflate(rd.inflIn).out,
                        !.outEnded = TRUE]
    /\ ReadFrame

\* The tar extractor has had the whole output stream: 'finish', or 'error'
\* when the bytes are not a tar archive.
ExtractorDone ==
    /\ rd.outEnded /\ rd.ext = "pending"
    /\ rd' = IF WellFormedTar(rd.tarIn) THEN [rd EXCEPT !.ext = "resolved"]
             ELSE ExtReject(rd, "tar")
    /\ ReadFrame

ReadNext ==
    \/ RStart \/ RPush \/ REmit \/ REof \/ REnd \/ RError \/ GetPayloadStream
    \/ InflaterError \/ InflaterEnd \/ ExtractorDone

\* The image files handed to the reader that no build here wrote: every
\* prefix of a well-formed image, wrong magic or version, headers that are
\* not what a build writes.
GoodImage == LibImage(ConfigA, Pack(DirA))

GivenHeaders ==
    {JsonStringify(<< >>), << 55 >>, << 110, 117, 108, 108 >>, << 91, 93 >>, TextBad,
     JsonStringify(<< << "imageName", 1 >> >>), JsonStringify(<< << "version", 2 >> >>)}

GivenFiles ==
    {SubSeq(GoodImage, 1, n) : n \in 0..Len(GoodImage)}
    \cup {MkFile(m, v, TextLib, Deflate(Pack(DirA))) : m \in MagicChoices, v \in VersionChoices}
    \cup {MkFile(NSI_MAGIC, VERSION, t, Deflate(Pack(DirA))) : t \in GivenHeaders}
    \cup {NSI_MAGIC \o U32BE(VERSION) \o U32BE(n) \o TextLib \o Deflate(Pack(DirA)) :
              n \in {MaxHeaderLen, MaxHeaderLen + 1}}
    \cup {MkFile(NSI_MAGIC, VERSION, TextLib, p) : p \in Payloads}

ImageInit ==
    /\ LauncherIdle
    /\ RunIdle
    /\ rd = RdIdle
    /\ \/ /\ bld \in {[BldIdle EXCEPT !.who = w, !.pc = "start", !.config = c, !.tar = t] :
                          w \in {"lib", "cli"}, c \in ConfigChoices, t \in TarChoices}
          /\ disk \in DiskChoices
       \/ /\ bld = BldIdle
          /\ disk \in {[exists |-> TRUE, bytes |-> f] : f \in GivenFiles} \cup {NoFile}

\* A run command is started on the image a build has written.
RunBuilt ==
    /\ hPc = "idle" /\ bld.pc = "done" /\ rd.promise = "idle"
    /\ \E d \in {"cli", "lib"} :
           /\ drv' = d
           /\ listeners' = IF d = "cli" THEN << "index" >> ELSE << >>
    /\ file' = disk.bytes
    /\ hPc' = "start"
    /\ proc' = [state |-> "running", status |-> 0]
    /\ UNCHANGED << launcherVars, imgVars, header, rootfsPath, rootfsExists, child,
                    rmInFlight, timerArmed, exitCode, hist, options >>

ImageNext == BuildNext \/ ReadNext \/ RunBuilt \/ RunNext

SpecImage == ImageInit /\ [][ImageNext]_vars

(***************************************************************************)
(* Claims about the image reader and the builders.                         *)
(***************************************************************************)
\* C12: readNsiImage resolves only if the declared header length is at
\* least 2 and the header bytes are a JSON object with the fields imageName
\* and version; a non-object value or a header without one of them is
\* rejected.
C12_OpenChecksHeader ==
    rd.promise = "resolved"
        => /\ rd.headerJsonLen >= 2
           /\ rd.json[1].kind = "object"
           /\ Has(rd.json[1], "imageName")
           /\ Has(rd.json[1], "version")

\* The file ends before 12 + headerLength bytes.
Truncated(f) ==
    \/ Len(f) < HEADER_FIXED_LEN
    \/ Len(f) < HEADER_FIXED_LEN + ReadUInt32BE(f, 8)

\* C13: when the image file ends before 12 + headerLength bytes, readNsiImage
\* never resolves, is rejected once the stream has ended or was destroyed,
\* and while it is pending the stream still has an event to deliver; for
\* every split of the file into chunks, files under 12 bytes and the empty
\* file included.
C13_TruncatedRejected ==
    (Started /\ disk.exists /\ Truncated(disk.bytes))
        => /\ rd.promise # "resolved"
           /\ (rd.endEmitted \/ rd.destroyed) => rd.promise = "rejected"
           /\ rd.promise = "pending" => ENABLED (RPush \/ REmit \/ REof \/ REnd)

C13_Witness ==
    /\ disk.exists /\ Truncated(disk.bytes) /\ Len(disk.bytes) > HEADER_FIXED_LEN
    /\ rd.hasInfo /\ rd.endEmitted
    /\ rd.promise = "rejected" /\ rd.why = "incomplete"

\* The bytes of the file from offset 12 + headerLength on.
FilePayload == SubSeq(disk.bytes, rd.payloadOffset + 1, Len(disk.bytes))

\* The payload bytes the reader holds for the inflater, or has given it.
Held ==
    IF rd.piped THEN rd.inflIn
    ELSE SubSeq(rd.buffer, rd.payloadOffset + 1, Len(rd.buffer))

\* C14: for every split of the file into chunks the inflater made by
\* getPayloadStream receives exactly the file's bytes from offset
\* 12 + headerLength on, in order and once each: the bytes buffered while the
\* header was parsed first, then every later chunk; and no chunk is consumed
\* between the resolution of readNsiImage and the call of getPayloadStream.
C14_PayloadDelivered ==
    rd.promise = "resolved"
        => /\ rd.dropped = << >>
           /\ Held \o rd.sbuf \o SubSeq(disk.bytes, rd.pos + 1, Len(disk.bytes)) = FilePayload
           /\ rd.inflEnded => rd.inflIn = FilePayload

C14_Witness ==
    /\ rd.inflEnded
    /\ rd.bufferedLen > 0 /\ rd.bufferedLen < Len(FilePayload)
    /\ rd.inflIn = FilePayload

\* What the inflater gives out at the end of its input.
Inflated == Inflate(rd.inflIn)

\* The image at the output path was written by a build of the library that
\* returned, and the reader's inflater has had all of it.
LibRoundTrip == bld.who = "lib" /\ bld.pc = "done" /\ rd.inflEnded

\* C15: for every tar stream T packed from a source directory,
\* createNsiImage, then readNsiImage and getPayloadStream on the written
\* file, give a decompressed stream equal to T, which extracts to the source
\* directory.
C15_RoundTrip ==
    LibRoundTrip
        => /\ Inflated.ok
           /\ Inflated.out = bld.tar
           /\ WellFormedTar(Inflated.out)
           /\ bld.tar = Pack(DirA) => Unpack(Inflated.out) = DirA

C15_Witness ==
    /\ LibRoundTrip /\ bld.tar = Pack(DirA)
    /\ rd.bufferedLen < Len(FilePayload)
    /\ Inflated.ok /\ Unpack(Inflated.out) = DirA

\* The header field k is there with the value the configuration supplied
\* for it (any value when the configuration supplied none).
Carries(h, k, supplied) ==
    Has(h, k) /\ (supplied # NullCode => Get(h, k) = supplied)

\* C16: the header read back from an image a build has written holds
\* imageName, version, runtime.cmd, runtime.workDir and runtime.env with the
\* values of the build configuration, and the fields hash, created and
\* sizeKB; for the library build and for the CLI build command.
C16_HeaderStable ==
    (bld.pc = "done" /\ rd.promise = "resolved")
        => LET h == rd.json[1]
           IN  /\ h.kind = "object"
               /\ Carries(h, "imageName", bld.config.name)
               /\ Carries(h, "version", bld.config.version)
               /\ Carries(h, "runtime.cmd", bld.config.cmd)
               /\ Carries(h, "runtime.workDir", bld.config.workDir)
               /\ Carries(h, "runtime.env", bld.config.env)
               /\ Has(h, "hash") /\ Has(h, "created") /\ Has(h, "sizeKB")

\* The header of the image at the output path.
DiskHeader == ParseHeaderAt(disk.bytes, DeclaredLen(disk.bytes))[1]

\* C17: the hash field of a written header is the SHA-256 of exactly the
\* uncompressed tar bytes that were compressed into the payload, and the hash
\* the run command takes over the decompressed payload of the unmodified
\* image equals it: no mismatch warning.
C17_HashOfTarBytes ==
    bld.pc = "done"
        => /\ Has(DiskHeader, "hash")
           /\ Get(DiskHeader, "hash") = Sha(bld.tar)
           /\ Inflate(PayloadOf(disk.bytes)).ok
           /\ Inflate(PayloadOf(disk.bytes)).out = bld.tar
           /\ hist.hashChecked => ~hist.hashWarned

C17_Witness ==
    /\ bld.pc = "done" /\ bld.tar = Pack(DirA)
    /\ drv = "cli" /\ file = disk.bytes
    /\ hist.hashChecked /\ ~hist.hashWarned /\ hist.spawned

\* A complete image: magic, version, header length, the whole header and the
\* whole compressed payload.
CompleteImage(f) == ReadNsiImage(f).ok /\ Inflate(PayloadOf(f)).ok

\* C19: in every state of a build, a crash or a failed write included, the
\* file at the output path does not exist, holds what it held before the
\* build, or holds a complete image.
C19_AtomicWrite ==
    (bld.who # "none" /\ disk.exists)
        => (disk.bytes = OldImage \/ CompleteImage(disk.bytes))

ImageUntouched == disk \in DiskChoices

\* C21: a build whose configuration lacks name, or lacks runtime.cmd, fails
\* before a scratch directory or a temporary file is made, before any build
\* command is run, and without writing an image; for each builder.
C21_ConfigChecked ==
    (bld.who # "none" /\ (bld.config.name = NullCode \/ bld.config.cmd = NullCode))
        => /\ bld.pc # "done"
           /\ ~bld.scratchMade /\ ~bld.tmpSet
           /\ bld.ran = << >>
           /\ ImageUntouched

\* The build has returned or thrown.
BuildReturned == bld.pc \in {"done", "failed"}

\* C22: on every exit path of a build after its scratch location was made
\* (success, a failing include copy, a failing build command, a failing
\* image write), the scratch directory of buildImage, or the temporary tar
\* file of the CLI build command, is gone when the build returns or throws.
C22_ScratchRemoved ==
    (BuildReturned /\ bld.scratchMade) => ~bld.scratch

C22_Witness ==
    /\ bld.who = "lib" /\ bld.pc = "failed" /\ bld.err = "step"
    /\ bld.scratchMade /\ ~bld.scratch

\* The commands of config.build a builder runs: the CLI skips empty ones.
RECURSIVE NonEmpty(_)
NonEmpty(cmds) ==
    IF cmds = << >> THEN << >>
    ELSE IF Head(cmds) = "" THEN NonEmpty(Tail(cmds))
    ELSE << Head(cmds) >> \o NonEmpty(Tail(cmds))

Declared == IF bld.who = "cli" THEN NonEmpty(bld.config.build) ELSE bld.config.build

\* C23: the build commands are run one at a time in the order declared;
\* after a command that exits non-zero no later command is run and the build
\* writes no image at the output path.
C23_BuildCommandsInOrder ==
    bld.who # "none"
        => /\ Len(bld.ran) <= Len(Declared)
           /\ bld.ran = SubSeq(Declared, 1, Len(bld.ran))
           /\ Len(bld.exits) = Len(bld.ran)
           /\ \A i \in 1..Len(bld.exits) :
                  bld.exits[i] # 0 => /\ i = Len(bld.exits)
                                      /\ bld.pc # "done"
                                      /\ ImageUntouched

C23_Witness ==
    /\ bld.who # "none" /\ bld.config.build = BuildCmds
    /\ bld.ran = << "a" >> /\ bld.exits = << 1 >> /\ bld.pc = "failed"


(***************************************************************************)
(* Claims about the stages of the launcher (specification Spec).           *)
(***************************************************************************)
Attempted(call) == call \in Range(trace)
FirstAt(call) == CHOOSE i \in 1..Len(trace) : trace[i] = call /\ \A j \in 1..(i - 1) : trace[j] # call
SetgroupsWarnings == {"setgroups_open_fails", "setgroups_write_fails"}
MapFailed ==
    \/ Attempted("uid_map") /\ ~kern.uidMap
    \/ Attempted("gid_map") /\ ~kern.gidMap

\* C24: the "deny" write to /proc/self/setgroups is attempted before the
\* gid_map write on every path; when it fails a warning is logged and the
\* launcher goes on to the uid_map write; when the uid_map or the gid_map
\* cannot be opened or written the launcher exits with a non-zero status, no
\* further namespace having been unshared and no child forked.
C24_MappingOrder ==
    /\ Attempted("gid_map") =>
          Attempted("setgroups") /\ FirstAt("setgroups") < FirstAt("gid_map")
    /\ Attempted("setgroups") => (outerPc = "uid_map" \/ Attempted("uid_map"))
    /\ (warnings \cap SetgroupsWarnings # {}) => Attempted("setgroups")
    /\ MapFailed =>
          /\ outerPc = "exited" /\ outerExit > 0
          /\ ~Attempted("unshare_ns") /\ ~Attempted("fork") /\ innerPc = "none"

C24_Witness ==
    /\ "setgroups_write_fails" \in warnings
    /\ kern.uidMap /\ ~kern.gidMap
    /\ trace = << "unshare_user", "setgroups", "uid_map", "gid_map" >>
    /\ outerPc = "exited" /\ outerExit = EXIT_FAILURE


CgCalls == {"cg_mkdir_parent", "cg_mkdir_leaf", "cg_memory_max", "cg_procs"}
Last(t) == t[Len(t)]
Died == innerPc = "dead" /\ innerEnd.kind = "exit"
Killed == innerPc = "dead" /\ innerEnd.kind = "signal"
MemoryMaxFailed == Attempted("cg_memory_max") /\ kern.memoryMax = << >>
ProcsFailed == Attempted("cg_procs") /\ ~kern.inCgroup

\* C25: no failure of the cgroup stage ends the inner process.  Whatever
\* combination of mkdir of the parent, mkdir of the leaf, open or write of
\* memory.max and open or write of cgroup.procs fails, each failure has its
\* warning, and the inner process, unless a signal kills it, goes through the
\* stage to the first call of the pivot.
C25_CgroupFailuresTolerated ==
    /\ kern.cgParent = "fail" => "cg_mkdir_parent" \in warnings
    /\ kern.cgLeaf = "fail" => "cg_mkdir_leaf" \in warnings
    /\ MemoryMaxFailed =>
          warnings \cap {"cg_memory_max_open_fails", "cg_memory_max_write_fails"} # {}
    /\ ProcsFailed =>
          warnings \cap {"cg_procs_open_fails", "cg_procs_write_fails"} # {}
    /\ (trace # << >> /\ Last(trace) \in CgCalls) =>
          \/ Killed
          \/ innerPc \in {"cg_mkdir_leaf", "cg_memory_max", "cg_procs", "fs_private"}
    /\ (trace # << >> /\ Last(trace) = "cg_procs") => (Killed \/ innerPc = "fs_private")

C25_Witness ==
    /\ kern.cgParent = "fail" /\ kern.cgLeaf = "fail"
    /\ MemoryMaxFailed /\ ProcsFailed
    /\ innerPc = "fs_bind" /\ trace # << >> /\ Last(trace) = "fs_private"

C25_WitnessWrites ==
    /\ kern.cgParent = "present" /\ kern.cgLeaf = "created"
    /\ {"cg_memory_max_write_fails", "cg_procs_write_fails"} \subseteq warnings
    /\ innerPc = "fs_private"


PivotOrder ==
    << "fs_private", "fs_bind", "fs_mkdir_old", "fs_pivot", "fs_chdir_root", "fs_umount" >>
IsPivotCall(call) == call \in Range(PivotOrder)
PivotCalls == SelectSeq(trace, IsPivotCall)
\* The fatal call of the pivot that failed, if one did.
PivotFailures ==
    {c \in {"fs_bind", "fs_mkdir_old", "fs_pivot", "fs_chdir_root"} :
        /\ Attempted(c)
        /\ CASE c = "fs_bind" -> ~kern.bound
             [] c = "fs_mkdir_old" -> ~kern.oldRootDir
             [] c = "fs_pivot" -> kern.oldRoot = "none"
             [] OTHER -> kern.cwd # "/" /\ ~Attempted("chdir_workdir")}

\* C26: setup_filesystem attempts the pivot steps in one order: make the
\* mount tree private, bind-mount rootfs onto itself, make the old-root
\* directory, pivot_root, chdir("/"), lazy umount of the old root; and when the
\* bind mount, the mkdir, pivot_root or the chdir fails, the inner process
\* exits non-zero with that call the last one attempted.
C26_PivotOrder ==
    /\ IsPrefix(PivotCalls, PivotOrder)
    /\ \A c \in PivotFailures :
          Died /\ innerEnd.n # 0 /\ Last(trace) = c

C26_Witness ==
    /\ PivotFailures = {"fs_pivot"}
    /\ PivotCalls = SubSeq(PivotOrder, 1, 4)
    /\ kern.bound /\ kern.oldRootDir /\ Died

C26_WitnessAll == PivotCalls = PivotOrder /\ PivotFailures = {}


MountTargets == [mount_proc |-> "/proc", mount_dev |-> "/dev", mount_sys |-> "/sys"]
MountFailures ==
    {c \in DOMAIN MountTargets : Attempted(c) /\ MountTargets[c] \notin Range(kern.mounts)}
Pivoted == kern.oldRoot # "none" /\ kern.root = args.rootfs

\* C27: execve is called only when /proc, /dev and /sys have been mounted, in
\* that order, after pivot_root; when one of the three mounts fails the inner
\* process exits non-zero, neither chdir to the working directory nor execve
\* having been called.
C27_ExecAfterMounts ==
    /\ Attempted("execve") =>
          /\ Pivoted
          /\ kern.mounts = << "/proc", "/dev", "/sys" >>
          /\ FirstAt("fs_pivot") < FirstAt("mount_proc")
          /\ FirstAt("mount_proc") < FirstAt("mount_dev")
          /\ FirstAt("mount_dev") < FirstAt("mount_sys")
          /\ FirstAt("mount_sys") < FirstAt("execve")
    /\ exec # << >> => Attempted("execve")
    /\ MountFailures # {} =>
          /\ Died /\ innerEnd.n # 0
          /\ ~Attempted("chdir_workdir") /\ ~Attempted("execve") /\ exec = << >>

C27_Witness ==
    /\ MountFailures = {"mount_sys"}
    /\ kern.mounts = << "/proc", "/dev" >>
    /\ Pivoted /\ Died

C27_WitnessExec == Attempted("execve") /\ innerPc = "running" /\ Pivoted


\* The fatal calls of the inner process that failed.
InnerFailures ==
    PivotFailures \cup MountFailures
      \cup {c \in {"chdir_workdir"} : Attempted(c) /\ ~kern.inWorkdir}
      \cup {c \in {"execve"} : Attempted(c) /\ ~kern.program}

\* C28: when a fatal call of the inner process fails after the fork (the bind
\* mount, the old-root mkdir, pivot_root, chdir("/"), a mount of /proc, /dev
\* or /sys, chdir to the working directory, or execve), the inner process
\* exits with a non-zero status, and the outer process, once it has exited,
\* has exited with that same status, which is not 0.
C28_InnerFailureSurfaced ==
    InnerFailures # {} =>
        /\ Died /\ innerEnd.n # 0
        /\ outerPc \in {"waitpid", "exited"}
        /\ outerPc = "waitpid" => ENABLED Waitpid
        /\ outerPc = "exited" => (outerExit = innerEnd.n /\ outerExit # 0)

C28_Witness ==
    /\ InnerFailures = {"execve"}
    /\ kern.inWorkdir /\ exec # << >>
    /\ outerPc = "exited" /\ outerExit = EXIT_FAILURE

C28_WitnessChdir == InnerFailures = {"chdir_workdir"} /\ outerPc = "exited" /\ outerExit = 1
C28_WitnessBind == InnerFailures = {"fs_bind"} /\ outerPc = "exited" /\ outerExit = 1



(***************************************************************************)
(* Claims about the exit status of the run drivers (specification SpecRun).*)
(***************************************************************************)
\* C29: a run driver that ends by itself (no SIGINT) exits with the
\* launcher's exit status when the launcher exited, with a non-zero status
\* when a signal ended the launcher, and with a non-zero status when it
\* never spawned the launcher (the helper lookup, the open, the header, the
\* decompression or the extraction failed).
C29_DriverExitStatus ==
    (proc.state = "exited" /\ ~hist.sigint) =>
        /\ hist.close = "exit" => proc.status = hist.code
        /\ hist.close = "signal" => proc.status # 0
        /\ ~hist.spawned => proc.status # 0


(***************************************************************************)
(* Claims about teardown and the arguments of the launcher (specification  *)
(* Spec).                                                                  *)
(***************************************************************************)
\* The calls that would remove the cgroup leaf directory.
LeafRemovals == {"cg_rmdir_leaf"}

\* C31: when the launcher has created the cgroup leaf directory and the
\* container has ended, by itself or by a signal, the launcher has attempted
\* to remove the leaf before it exits.
C31_LeafRemovedAtTeardown ==
    (outerPc = "exited" /\ kern.cgLeaf = "created" /\ innerPc = "dead")
        => Range(trace) \cap LeafRemovals # {}


(***************************************************************************)
(* The --env options: parse_args of the launcher and the option parser of  *)
(* `nsi run` (bin/nsi.js), each given the same strings.                    *)
(***************************************************************************)
MaxEnvArgs == 2      \* --env options on one command line

\* String.prototype.split(c), and String.prototype.trim().
RECURSIVE JsSplit(_, _)
JsSplit(s, c) ==
    LET i == Find(s, c)
    IN  IF i = 0 THEN << s >>
        ELSE << SubSeq(s, 1, i - 1) >> \o JsSplit(SubSeq(s, i + 1, Len(s)), c)

RECURSIVE TrimStart(_)
TrimStart(s) ==
    IF Len(s) > 0 /\ SubSeq(s, 1, 1) = " " THEN TrimStart(SubSeq(s, 2, Len(s))) ELSE s

RECURSIVE TrimEnd(_)
TrimEnd(s) ==
    IF Len(s) > 0 /\ SubSeq(s, Len(s), Len(s)) = " "
      THEN TrimEnd(SubSeq(s, 1, Len(s) - 1)) ELSE s

JsTrim(s) == TrimEnd(TrimStart(s))

\* The parser of the --env option of `nsi run`: [key, value] are the first
\* two pieces of val.split('='); the entry is stored when both are non-empty.
NsiEnvOption(val, memo) ==
    LET parts == JsSplit(val, "=")
        key   == parts[1]
        value == IF Len(parts) >= 2 THEN parts[2] ELSE ""
    IN  IF key # "" /\ value # "" THEN MapPut(memo, JsTrim(key), JsTrim(value))
        ELSE memo

\* commander calls the parser once for each --env, left to right, starting
\* from the default {}.
RECURSIVE NsiEnvOptions(_, _)
NsiEnvOptions(vals, memo) ==
    IF vals = << >> THEN memo
    ELSE NsiEnvOptions(Tail(vals), NsiEnvOption(Head(vals), memo))

EnvStrings == {"A=3", "B", "=x", "A=", "A=b=c", "C=1", "D= 4"}
EnvArgChoices == SeqsUpTo(EnvStrings, MaxEnvArgs)

\* The launcher's command line with the given --env options.
EnvArgv(vals) ==
    << "nsi-sandbox", "--rootfs=" \o TmpDir, "--cgroup-id=" \o ContainerId >>
    \o [i \in 1..Len(vals) |-> "--env=" \o vals[i]]
    \o << "/s" >>

EnvInit ==
    /\ \E vals \in EnvArgChoices :
          /\ argv = EnvArgv(vals)
          /\ options = [OptionsIdle EXCEPT !.envArgs = vals]
    /\ inp = [cmd |-> << "/s" >>, env |-> << >>, workDir |-> << "/app" >>,
              argvEnv |-> << >>, memGiven |-> << >>, mem |-> DefaultMem]
    /\ environ = HostEnv /\ args = ArgsInit
    /\ outerPc = "parse" /\ innerPc = "none" /\ trace = << >> /\ warnings = {}
    /\ hostname = "" /\ innerEnd = NotEnded /\ outerExit = -1 /\ exec = << >>
    /\ kern = KernInit
    /\ drv = "lib" /\ file = << >> /\ hPc = "idle" /\ header = << >>
    /\ rootfsPath = << >> /\ rootfsExists = FALSE /\ child = "none"
    /\ listeners = << >> /\ rmInFlight = 0 /\ timerArmed = FALSE
    /\ exitCode = << >> /\ proc = [state |-> "idle", status |-> 0]
    /\ hist = HistInit
    /\ ImageIdle

\* commander parses the command line of `nsi run` before the action runs.
NsiParseOptions ==
    /\ drv = "lib" /\ hPc = "idle" /\ ~options.parsed
    /\ options' = [options EXCEPT !.parsed = TRUE,
                                  !.env = NsiEnvOptions(options.envArgs, EmptyMap)]
    /\ UNCHANGED << launcherVars, imgVars, drv, file, hPc, header, rootfsPath, rootfsExists,
                    child, listeners, rmInFlight, timerArmed, exitCode, proc, hist >>

EnvNext == ParseArgsStep \/ NsiParseOptions

SpecEnv == EnvInit /\ [][EnvNext]_vars

(***************************************************************************)
(* Claims about the --env options (specification SpecEnv).                 *)
(***************************************************************************)
WellFormed(o) == Find(o, "=") > 1
OverrideKey(o) == SubSeq(o, 1, Find(o, "=") - 1)
OverrideValue(o) == SubSeq(o, Find(o, "=") + 1, Len(o))
\* What the overrides set: for each key of a well-formed override, the full
\* text after the first '=' of the last such override.
OverridesSet(vals) ==
    LET good == {i \in 1..Len(vals) : WellFormed(vals[i])}
        keys == {OverrideKey(vals[i]) : i \in good}
        LastOf(k) == CHOOSE i \in good :
                        /\ OverrideKey(vals[i]) = k
                        /\ \A j \in good : OverrideKey(vals[j]) = k => j <= i
    IN  [k \in keys |-> OverrideValue(vals[LastOf(k)])]

LauncherParsed == outerPc # "parse"

\* C32: an override without '=' or with an empty key is warned about and
\* skipped, the launch goes on and the other overrides are untouched; a
\* well-formed override KEY=VALUE sets KEY to all of the text after the first
\* '=', an empty text and a text with '=' in it included.  This holds for
\* the launcher's --env and for the --env of `nsi run`.
C32_EnvOverrides ==
    /\ LauncherParsed =>
          /\ args.status = "ok"
          /\ args.env_vars = OverridesSet(options.envArgs)
          /\ \A i \in 1..Len(options.envArgs) :
                ~WellFormed(options.envArgs[i]) => ("env:" \o options.envArgs[i]) \in warnings
    /\ options.parsed => options.env = OverridesSet(options.envArgs)

\* The launcher's part of C32.
LauncherEnvOverrides ==
    LauncherParsed =>
          /\ args.status = "ok"
          /\ args.env_vars = OverridesSet(options.envArgs)
          /\ \A i \in 1..Len(options.envArgs) :
                ~WellFormed(options.envArgs[i]) => ("env:" \o options.envArgs[i]) \in warnings


(***************************************************************************)
(* The launcher started by the run command with the caller's --mem, or     *)
(* with none (specification SpecMem).                                      *)
(***************************************************************************)
MemGivenChoices == {<< >>, << "1G" >>, << "max" >>}

MemInit ==
    /\ inp \in {[cmd |-> << "/s" >>, env |-> << >>, workDir |-> w, argvEnv |-> << >>,
                 memGiven |-> g, mem |-> YargsMem(g)] :
                    w \in WorkDirChoices, g \in MemGivenChoices}
    /\ argv = << "nsi-sandbox" >>
              \o SandboxArgs(TmpDir, inp, inp.argvEnv, inp.mem, ContainerId)
    /\ environ = HostEnv /\ args = ArgsInit
    /\ outerPc = "parse" /\ innerPc = "none" /\ trace = << >> /\ warnings = {}
    /\ hostname = "" /\ innerEnd = NotEnded /\ outerExit = -1 /\ exec = << >>
    /\ kern = KernInit
    /\ RunIdle
    /\ ImageIdle

SpecMem == MemInit /\ [][LauncherNext]_vars

\* C33: every text written to memory.max is the caller's --mem string,
\* unchanged; when the caller gave no --mem, memory.max is not written, and
\* not opened for writing either.
C33_MemoryLimitPassedThrough ==
    /\ inp.memGiven # << >> =>
          \A i \in 1..Len(kern.memoryMax) : kern.memoryMax[i] = inp.memGiven[1]
    /\ inp.memGiven = << >> =>
          (kern.memoryMax = << >> /\ ~Attempted("cg_memory_max"))

\* The first part of C33, alone.
MemoryTextUnchanged ==
    inp.memGiven # << >> =>
          \A i \in 1..Len(kern.memoryMax) : kern.memoryMax[i] = inp.memGiven[1]


(***************************************************************************)
(* Further claims about the launcher (specification Spec).                 *)
(***************************************************************************)
\* C34: execve is called only when the old root has been detached from the
\* inner process's mount tree: no run reaches execve with the host's root
\* still mounted on /.old_root.
C34_OldRootDetachedAtExec ==
    Attempted("execve") => kern.oldRoot = "detached"

\* The working directory the image header asks for: "/" when it names none.
HeaderWorkdir == IF inp.workDir = << >> THEN "/" ELSE inp.workDir[1]

\* C35: at execve the inner process's working directory is the header's
\* workDir, or "/" when the header has none, the launcher having been given
\* that path by the run command; when the chdir fails the inner process ends
\* without calling execve.
C35_WorkdirAtExec ==
    /\ LauncherParsed /\ args.status = "ok" => args.workdir = HeaderWorkdir
    /\ Attempted("execve") => (kern.inWorkdir /\ kern.cwd = HeaderWorkdir)
    /\ (Attempted("chdir_workdir") /\ ~kern.inWorkdir) => (Died /\ ~Attempted("execve"))

\* C35 for the headers that name a working directory.
WorkdirGivenAtExec ==
    inp.workDir # << >> =>
        /\ LauncherParsed /\ args.status = "ok" => args.workdir = HeaderWorkdir
        /\ Attempted("execve") => (kern.inWorkdir /\ kern.cwd = HeaderWorkdir)
        /\ (Attempted("chdir_workdir") /\ ~kern.inWorkdir) => (Died /\ ~Attempted("execve"))

\* ---------------------------------------------------------------------
\* Claims about the extraction of the payload
\* ---------------------------------------------------------------------

\* The extraction promise has been rejected.
ExtFailed == rd.ext = "rejected"

\* Something that rejects the extraction promise can still happen.
ExtFailureAhead == ENABLED InflaterError

\* Success comes only after the whole decompressed payload of the file has
\* reached the extractor, and a failed decompression fails the extraction.
SuccessOnlyAfterWholePayload ==
    /\ rd.ext = "resolved" =>
          /\ rd.outEnded /\ rd.infl = "ended" /\ ~rd.ioFailed
          /\ rd.inflIn = FilePayload /\ Inflate(FilePayload).ok
          /\ rd.tarIn = Inflate(FilePayload).out /\ WellFormedTar(rd.tarIn)
    /\ rd.infl = "error" => ExtFailed
    /\ (rd.ext # "idle" /\ rd.inflEnded /\ ~Inflate(rd.inflIn).ok) =>
          ExtFailed \/ ExtFailureAhead

\* C36: extractNsiPayload reports success only after the whole decompressed
\* payload has been delivered to the tar extractor and the extractor has
\* finished; when the decompressor fails, or the read of the file fails at
\* any point, it reports failure and never success.
C36_ExtractionOutcome ==
    /\ SuccessOnlyAfterWholePayload
    /\ (rd.ioFailed /\ rd.ext # "idle") => ExtFailed \/ ExtFailureAhead

\* ---------------------------------------------------------------------
\* Claims about the chunks of the file stream
\* ---------------------------------------------------------------------

Settled == rd.promise \in {"resolved", "rejected"}

\* What readNsiImage has settled with.
Outcome(r) ==
    IF r.promise = "resolved"
    THEN [ok |-> TRUE, why |-> "", header |-> r.json, version |-> r.version]
    ELSE [ok |-> FALSE, why |-> r.why, header |-> << >>, version |-> 0]

\* What the bytes of the file decide, however they are split.
OutcomeOfBytes(f) ==
    LET w == ReadNsiImage(f)
    IN  [ok |-> w.ok, why |-> w.why, header |-> w.header,
         version |-> IF w.ok THEN ReadUInt32BE(f, 4) ELSE 0]

SameOutcomeForEverySplit ==
    /\ rd.settles <= 1
    /\ Settled <=> rd.settles = 1
    /\ (Settled /\ ~rd.ioFailed /\ disk.exists) => Outcome(rd) = OutcomeOfBytes(disk.bytes)
    /\ (rd.promise = "resolved" /\ ~rd.piped) =>
          /\ Len(rd.buffer) >= rd.payloadOffset
          /\ rd.buffer = SubSeq(disk.bytes, 1, Len(rd.buffer))

SettledForGood ==
    Settled => /\ Outcome(rd') = Outcome(rd)
               /\ rd'.settles = rd.settles
               /\ ~rd'.piped => rd'.buffer = rd.buffer

\* C37: however the bytes of a file are split into chunks, readNsiImage
\* settles with the same header and version or with the same kind of error;
\* the promise is settled exactly once, and chunks that arrive after it has
\* settled change neither the result nor the buffered payload prefix.
C37_ChunkingIndependent == [] SameOutcomeForEverySplit /\ [][SettledForGood]_vars

\* The promise has resolved from a first chunk that stops inside the
\* payload, and the stream has read more of the file since.
C37_Witness ==
    /\ rd.promise = "resolved" /\ ~rd.piped /\ ~rd.ioFailed
    /\ Len(rd.buffer) > rd.payloadOffset
    /\ rd.sbuf # << >>

\* ---------------------------------------------------------------------
\* Claims about the termination of a read
\* ---------------------------------------------------------------------

\* The steps the event loop takes by itself: the file stream reads and
\* emits, the caller goes on after readNsiImage, the inflater and the
\* extractor work through what they were given.  A failing read is not one
\* of them.
ReadProgress ==
    \/ RStart \/ RPush \/ REmit \/ REof \/ REnd \/ GetPayloadStream
    \/ InflaterError \/ InflaterEnd \/ ExtractorDone

SpecImageFair == ImageInit /\ [][ImageNext]_vars /\ WF_vars(ReadProgress)

\* readNsiImage has rejected, or extractNsiPayload has settled.
ReadSettled == rd.promise = "rejected" \/ rd.ext \in {"resolved", "rejected"}

\* A read failed after readNsiImage resolved and before getPayloadStream
\* added its listener.
ErrorBeforePipe == rd.ioFailed /\ rd.promise = "resolved" /\ rd.ext # "rejected"

\* C38: for every file content and every interleaving of the data, end and
\* error events of the file stream, readNsiImage followed by
\* getPayloadStream and extractNsiPayload settles in the end; the
\* extraction promise never stays pending for ever.
C38_ReadSettles == (rd.promise = "pending") ~> ReadSettled

\* The same, but for the runs where a read fails between the two calls.
ReadSettlesOrErrorBeforePipe == (rd.promise = "pending") ~> (ReadSettled \/ ErrorBeforePipe)

\* ---------------------------------------------------------------------
\* Claims about the order of extraction and spawn
\* ---------------------------------------------------------------------

\* The header of the image file parses, as the driver at work parses it.
HeaderParses ==
    IF drv = "lib" THEN ReadNsiImage(file).ok
    ELSE ParseHeaderAt(file, DeclaredLen(file)) # << >>

\* The payload of the image file inflates to a tar archive.
PayloadExtracts == UnzipOk(PayloadOf(file)) /\ TarOk(PayloadOf(file))

\* C39: the launcher is spawned only after the header of the image has been
\* parsed and the payload has been extracted whole and without error into
\* the rootfs directory; when header parsing, decompression or extraction
\* fails, the launcher is not spawned in that run.  For both run drivers.
C39_SpawnAfterExtraction ==
    /\ hist.spawned =>
          /\ header # << >> /\ hist.headerParsed
          /\ hist.rootfsCreated /\ hist.extracted
          /\ HeaderParses /\ PayloadExtracts
    /\ (hPc # "idle" /\ ~(HeaderParses /\ PayloadExtracts)) =>
          ~hist.spawned /\ child = "none"

\* The CLI handler has spawned the launcher from an extracted image.
C39_Witness == drv = "cli" /\ hist.spawned /\ hist.extracted /\ child = "running"

\* The library has, and a run of each driver has ended on a payload that
\* does not extract.
C39_WitnessLib == drv = "lib" /\ hist.spawned /\ hist.extracted /\ child = "running"

C39_WitnessFailedCli ==
    drv = "cli" /\ hPc = "done" /\ HeaderParses /\ ~PayloadExtracts /\ hist.rootfsCreated

C39_WitnessFailedLib ==
    drv = "lib" /\ hPc = "done" /\ HeaderParses /\ ~PayloadExtracts /\ hist.rootfsCreated

\* ---------------------------------------------------------------------
\* Claims about the cleanup of the run command
\* ---------------------------------------------------------------------

\* Every removal cleanup() has started is finished and the handler and the
\* launcher are done.
CleanupOver ==
    /\ drv = "cli" /\ hPc = "done" /\ child \in {"none", "closed"}
    /\ rmInFlight = 0 /\ hist.rootfsCreated

\* C40: cleanup() of the run command may be invoked more than once in a
\* run, the second time while the first removal is still going on: the
\* rootfs directory ends up removed and no removal raises an error that
\* could leave cleanup().
C40_CleanupReentrant ==
    /\ rmInFlight \in 0..2
    /\ hist.rmErrors = 0
    /\ CleanupOver => ~rootfsExists /\ rootfsPath = << >> /\ hist.rmDone >= 1

\* Two overlapping removals have both finished.
C40_Witness == CleanupOver /\ hist.rmDone = 2 /\ child = "closed"

\* Two removals are in progress at once.
C40_WitnessOverlap == rmInFlight = 2 /\ rootfsExists

====
